---- MODULE Spec2Model ----
(***************************************************************************)
(* A model of the unsafe-path analyser: the call graph of                  *)
(* src/src/analysis/call_graph.rs (classification sets, breadth-first      *)
(* reachability, depth-first path search, validity and minimality          *)
(* filters).                                                               *)
(***************************************************************************)
EXTENDS Integers, Sequences, FiniteSets, TLC

(***************************************************************************)
(* Bounds of the model.                                                    *)
(***************************************************************************)
\* the function paths (full_path strings) a file may mention
Nodes == {"a", "b", "c"}
\* the largest number of distinct call edges added to one graph
MaxCalls == 3
\* the largest max_search_depth a graph is constructed with
MaxDepth == 2

\* the largest number of function items in one visited file
MaxItems == 3
\* the deepest nesting of function items and unsafe blocks in one visited file
MaxNest == 3

\* the largest number of files in the analysed directory
MaxFiles == 2

\* The values of max_search_depth: the smallest with which a search leaves its
\* origin, and the largest of the model.
Depths == {1, MaxDepth}

\* Every order in which a HashSet over Nodes may be iterated.
Orders ==
  {o \in [1..Cardinality(Nodes) -> Nodes] : \A n \in Nodes : \E i \in DOMAIN o : o[i] = n}

\* VisibilityKind (models.rs): pub fn and private fn; the graph tests only
\* visibility == Public, so Crate and Restricted behave as Module does
VisibilityKind == {"Public", "Module"}

\* The FunctionInfo fields the graph reads.
FunctionInfo ==
  [visibility : VisibilityKind, is_unsafe_fn : BOOLEAN,
   has_internal_unsafe : BOOLEAN, source_code : {"fn"}]

(***************************************************************************)
(* State of one analyze_file and of the CallGraph it owns.                 *)
(***************************************************************************)
VARIABLES
  call_graph,   \* the CallGraph struct: functions, calls, reverse_calls,
                \* unsafe_functions, public_functions, public_unsafe_functions,
                \* public_non_unsafe_functions, max_search_depth
  pc,           \* position of analyze_file: in the loop over "functions", in
                \* the loop over "calls", or "done" with the search
  paths,        \* the Vec<Vec<PathNodeInfo>> find_paths_to_unsafe returned
  fn_visitor,   \* the FunctionVisitor struct: functions, unsafe_functions,
                \* current_function, has_unsafe, in_unsafe_block
  stack,        \* the visit_* calls in progress, innermost last: a frame of
                \* visit_item_fn / visit_impl_item_fn, or a frame of
                \* visit_expr_unsafe with its local prev_in_unsafe
  items,        \* the number of function items the traversal has entered
  finished,     \* the function item whose visit has just returned, with what
                \* its body held, or None
  call_visitor, \* the CallVisitor struct: current_function, calls
  sites,        \* the call sites the traversal has passed, each with the
                \* function item whose body holds it
  impls_seen,   \* the impl blocks the traversal has passed
  sig_type,     \* a type of the signature analyze_function_signature reads
  custom_types, \* the HashSet extract_custom_types fills
  search,       \* the locals of a find_paths_to_unsafe in progress: all_paths,
                \* the origins not yet iterated, the targets, the queue, visited
                \* set and result of precompute_reachable_targets, and the
                \* calls of dfs_find_valid_paths in progress with their
                \* visited set and path
  contents,     \* what each file of the directory holds
  analyses,     \* per file, what analyze_file returns on it under each
                \* iteration order of the hash sets: the files do not change
                \* during the run, so this is fixed from the start
  pending,      \* the files no worker of the pool has taken yet
  workers,      \* per worker: its position in the closure of try_for_each,
                \* its file and the file_result it computed
  locks,        \* per Mutex (results, error_count, processed_count): the
                \* worker that holds its guard, or None
  results,      \* Arc<Mutex<Vec<FileAnalysisResult>>>
  error_count,  \* Arc<Mutex<i32>>
  processed_count, \* Arc<Mutex<i32>>
  returned,     \* analyze_directory_parallel has returned Ok(())
  main_run,     \* main: its position, the command line, what the input path
                \* is, the lines written to standard error, the length of
                \* analyzer.results, and the value main returned
  file_run,     \* one analyze_file followed step by step: its position, the
                \* file, self.timeout, the time since start_time, the passes
                \* done, each evaluation of the timeout test, and what it
                \* returned
  uses_seen,    \* the use items the call visitor has passed
  resolved      \* the last path given to CallVisitor::resolve_path, and the
                \* string it returned

graphVars == <<call_graph, paths>>

visitorVars ==
  <<fn_visitor, stack, items, finished, call_visitor, sites, impls_seen, sig_type,
    custom_types>>

parVars ==
  <<contents, analyses, pending, workers, locks, results, error_count, processed_count,
    returned>>

\* the variables of CallVisitor::resolve_path
resolveVars == <<uses_seen, resolved>>

\* the variables of main, of the stepwise analyze_file and of resolve_path
runVars == <<main_run, file_run, resolveVars>>

vars == <<call_graph, pc, paths, fn_visitor, stack, items, finished, call_visitor, sites,
          impls_seen, sig_type, custom_types, search, parVars, runVars>>

(***************************************************************************)
(* Helpers on sequences and sets.                                          *)
(***************************************************************************)
Range(s) == {s[i] : i \in DOMAIN s}

Front(s) == SubSeq(s, 1, Len(s) - 1)

\* The elements of set S in the iteration order o.
IterOrder(S, o) == SelectSeq(o, LAMBDA x : x \in S)

\* The edges stored in a caller -> callees map.
Edges(m) == {e \in Nodes \X Nodes : e[1] \in DOMAIN m /\ e[2] \in m[e[1]]}

(***************************************************************************)
(* CallGraph::new                                                          *)
(***************************************************************************)
new(max_depth) ==
  [functions |-> << >>, calls |-> << >>, reverse_calls |-> << >>,
   unsafe_functions |-> {}, public_functions |-> {},
   public_unsafe_functions |-> {}, public_non_unsafe_functions |-> {},
   max_search_depth |-> max_depth]

\* add_function with the insertion into public_unsafe_functions nested under
\* the test of is_unsafe_fn
add_function_nested_unsafe(g, path, info) ==
  [g EXCEPT
     !.public_functions =
        IF info.visibility = "Public" THEN @ \cup {path} ELSE @,
     !.public_non_unsafe_functions =
        IF info.visibility = "Public" /\ ~info.is_unsafe_fn THEN @ \cup {path} ELSE @,
     !.public_unsafe_functions =
        IF info.visibility = "Public" /\ ~info.is_unsafe_fn /\ info.has_internal_unsafe
          THEN @ \cup {path} ELSE @,
     !.unsafe_functions =
        IF info.has_internal_unsafe THEN @ \cup {path} ELSE @,
     !.functions = [p \in DOMAIN @ \cup {path} |-> IF p = path THEN info ELSE @[p]]]

\* add_function without the test of is_unsafe_fn
add_function_any_signature(g, path, info) ==
  [g EXCEPT
     !.public_functions =
        IF info.visibility = "Public" THEN @ \cup {path} ELSE @,
     !.public_non_unsafe_functions =
        IF info.visibility = "Public" THEN @ \cup {path} ELSE @,
     !.public_unsafe_functions =
        IF info.visibility = "Public" /\ info.has_internal_unsafe THEN @ \cup {path} ELSE @,
     !.unsafe_functions =
        IF info.has_internal_unsafe THEN @ \cup {path} ELSE @,
     !.functions = [p \in DOMAIN @ \cup {path} |-> IF p = path THEN info ELSE @[p]]]

(***************************************************************************)
(* CallGraph::add_function                                                 *)
(***************************************************************************)
add_function(g, path, info) ==
  [g EXCEPT
     !.public_functions =
        IF info.visibility = "Public" THEN @ \cup {path} ELSE @,
     !.public_non_unsafe_functions =
        IF info.visibility = "Public" /\ ~info.is_unsafe_fn THEN @ \cup {path} ELSE @,
     !.public_unsafe_functions =
        IF info.visibility = "Public" /\ info.has_internal_unsafe THEN @ \cup {path} ELSE @,
     !.unsafe_functions =
        IF info.has_internal_unsafe THEN @ \cup {path} ELSE @,
     !.functions = [p \in DOMAIN @ \cup {path} |-> IF p = path THEN info ELSE @[p]]]

\* entry(key).or_insert_with(HashSet::new).insert(value)
EntryInsert(m, key, value) ==
  [k \in DOMAIN m \cup {key} |->
     IF k = key THEN (IF key \in DOMAIN m THEN m[key] ELSE {}) \cup {value} ELSE m[k]]

(***************************************************************************)
(* CallGraph::add_call                                                     *)
(***************************************************************************)
add_call(g, caller, callee) ==
  [g EXCEPT !.calls = EntryInsert(@, caller, callee),
            !.reverse_calls = EntryInsert(@, callee, caller)]

(***************************************************************************)
(* CallGraph::is_valid_path                                                *)
(***************************************************************************)
is_valid_path(g, path) ==
  IF Len(path) <= 1 THEN FALSE
  ELSE IF path[1] \notin g.public_non_unsafe_functions THEN FALSE
  ELSE IF path[Len(path)] \notin g.unsafe_functions THEN FALSE
  ELSE \A i \in 2..(Len(path) - 1) :
         ~(path[i] \in g.unsafe_functions \/ path[i] \in g.public_unsafe_functions)

\* is_minimal_path with its loop started one index late
is_minimal_path_from_third(g, path) ==
  \A i \in 3..Len(path) : path[i] \notin g.public_functions

(***************************************************************************)
(* CallGraph::is_minimal_path                                              *)
(***************************************************************************)
is_minimal_path(g, path) ==
  \A i \in 2..Len(path) : path[i] \notin g.public_functions

(***************************************************************************)
(* CallGraph::convert_path_to_node_info                                    *)
(***************************************************************************)
convert_path_to_node_info(g, path) ==
  [i \in 1..Len(path) |->
     IF path[i] \in DOMAIN g.functions
       THEN [full_path |-> path[i],
             visibility |-> g.functions[path[i]].visibility,
             source_code |-> g.functions[path[i]].source_code]
       ELSE [full_path |-> path[i], visibility |-> "Module", source_code |-> ""]]

(***************************************************************************)
(* CallGraph::precompute_reachable_targets: the while-let loop over the    *)
(* queue, one iteration per unfolding.                                     *)
(***************************************************************************)
\* the visited test of the loop, always passed
NotVisited_always(callee, visited) == TRUE

\* if !visited.contains(callee)
NotVisited(callee, visited) == callee \notin visited

\* The for loop over the callees of the dequeued node: st = [visited, queue].
RECURSIVE bfs_callees(_, _)
bfs_callees(callees, st) ==
  IF callees = << >> THEN st
  ELSE LET callee == Head(callees) IN
       IF NotVisited(callee, st.visited)
         THEN bfs_callees(Tail(callees),
                          [visited |-> st.visited \cup {callee},
                           queue |-> Append(st.queue, callee)])
         ELSE bfs_callees(Tail(callees), st)

RECURSIVE bfs_loop(_, _, _, _, _, _)
bfs_loop(g, o, targets, queue, visited, reachable) ==
  IF queue = << >> THEN reachable
  ELSE LET current == Head(queue)
           reachable2 == IF current \in targets THEN reachable \cup {current} ELSE reachable
           st == IF current \in DOMAIN g.calls
                   THEN bfs_callees(IterOrder(g.calls[current], o),
                                    [visited |-> visited, queue |-> Tail(queue)])
                   ELSE [visited |-> visited, queue |-> Tail(queue)]
       IN bfs_loop(g, o, targets, st.queue, st.visited, reachable2)

precompute_reachable_targets(g, o, start, targets) ==
  bfs_loop(g, o, targets, <<start>>, {start}, {})

(***************************************************************************)
(* CallGraph::dfs_find_valid_paths.  st = [visited, path, all_paths] are   *)
(* the three &mut arguments; the result is their value on return.          *)
(***************************************************************************)
\* the backtrack step without visited.remove(current)
Backtrack_keeps_visited(st, current) ==
  [visited |-> st.visited, path |-> Front(st.path), all_paths |-> st.all_paths]

\* the backtrack step without path.pop()
Backtrack_keeps_path(st, current) ==
  [visited |-> st.visited \ {current}, path |-> st.path, all_paths |-> st.all_paths]

\* path.pop(); visited.remove(current)
Backtrack(st, current) ==
  [visited |-> st.visited \ {current}, path |-> Front(st.path), all_paths |-> st.all_paths]

\* the function without its pruning test
PruneIntermediate_never(g, current, targets, path) == FALSE

\* the pruning test on an intermediate node
PruneIntermediate(g, current, targets, path) ==
  /\ path # << >>
  /\ current \notin targets
  /\ (current \in g.unsafe_functions \/ current \in g.public_unsafe_functions)

\* the function without its depth test
DepthExceeded_never(g, depth) == FALSE

\* the depth test with >= in place of >
DepthExceeded_at_limit(g, depth) == depth >= g.max_search_depth

\* if depth > self.max_search_depth { return; }
DepthExceeded(g, depth) == depth > g.max_search_depth

RECURSIVE dfs_find_valid_paths(_, _, _, _, _, _)
RECURSIVE dfs_callees(_, _, _, _, _, _)

dfs_find_valid_paths(g, o, current, targets, st, depth) ==
  IF DepthExceeded(g, depth) THEN st
  ELSE IF current \in st.visited THEN st
  ELSE IF PruneIntermediate(g, current, targets, st.path) THEN st
  ELSE LET st1 == [visited |-> st.visited \cup {current},
                   path |-> Append(st.path, current),
                   all_paths |-> st.all_paths]
           st2 == IF current \in targets
                    THEN [st1 EXCEPT !.all_paths = Append(@, st1.path)]
                    ELSE IF current \in DOMAIN g.calls
                      THEN dfs_callees(g, o, IterOrder(g.calls[current], o),
                                       targets, st1, depth + 1)
                      ELSE st1
       IN Backtrack(st2, current)

\* for callee in callees { self.dfs_find_valid_paths(callee, ..., depth + 1) }
dfs_callees(g, o, callees, targets, st, depth) ==
  IF callees = << >> THEN st
  ELSE dfs_callees(g, o, Tail(callees), targets,
                   dfs_find_valid_paths(g, o, Head(callees), targets, st, depth), depth)

(***************************************************************************)
(* CallGraph::find_valid_paths                                             *)
(***************************************************************************)
find_valid_paths(g, o, start, targets) ==
  dfs_find_valid_paths(g, o, start, targets,
                       [visited |-> {}, path |-> << >>, all_paths |-> << >>], 0).all_paths

(***************************************************************************)
(* CallGraph::find_paths_to_unsafe                                         *)
(***************************************************************************)
\* first loop: the directly public unsafe functions
DirectPaths(g, o) ==
  LET s == IterOrder(g.public_unsafe_functions \cap g.public_non_unsafe_functions, o)
  IN [i \in 1..Len(s) |-> <<s[i]>>]

\* second loop: breadth-first pre-computation, then depth-first search, per origin
RECURSIVE OriginPaths(_, _, _, _)
OriginPaths(g, o, origins, non_public_unsafe) ==
  IF origins = << >> THEN << >>
  ELSE LET pub_fn == Head(origins)
           reachable_targets ==
             precompute_reachable_targets(g, o, pub_fn, non_public_unsafe)
           found == IF pub_fn \notin g.public_unsafe_functions /\ reachable_targets # {}
                      THEN find_valid_paths(g, o, pub_fn, reachable_targets)
                      ELSE << >>
       IN found \o OriginPaths(g, o, Tail(origins), non_public_unsafe)

\* all_paths before the final filters
Candidates(g, o) ==
  DirectPaths(g, o)
    \o OriginPaths(g, o, IterOrder(g.public_non_unsafe_functions, o),
                   g.unsafe_functions \ g.public_unsafe_functions)

\* the filters without the minimality filter
KeepPath_not_minimal(g, path) ==
  is_valid_path(g, path) /\ Len(path) > 1

\* the three filters applied to one candidate
KeepPath(g, path) ==
  is_valid_path(g, path) /\ is_minimal_path(g, path) /\ Len(path) > 1

find_paths_to_unsafe(g, o) ==
  LET kept == SelectSeq(Candidates(g, o), LAMBDA p : KeepPath(g, p))
  IN [i \in 1..Len(kept) |-> convert_path_to_node_info(g, kept[i])]

\* Option::None
None == "None"

\* no find_paths_to_unsafe in progress
NoSearch ==
  [all_paths |-> << >>, origins_left |-> {}, pub_fn |-> None, targets |-> {},
   queue |-> << >>,
   bfs_visited |-> {}, reachable |-> {}, frames |-> << >>, visited |-> {},
   path |-> << >>]

\* CallVisitor::new
CallVisitor_new ==
  [current_module_path |-> << >>, current_function |-> None, calls |-> << >>,
   imports |-> << >>]

\* no function item has just been left
NoItem == [name |-> None, has_block |-> FALSE, nested |-> FALSE]

\* the workers of the rayon pool
Workers == {"w1", "w2"}

\* the three Arc<Mutex<..>> of analyze_directory_parallel
Mutexes == {"results", "error_count", "processed_count"}

\* no directory is being analysed
NoDirectory ==
  /\ contents = << >>
  /\ analyses = << >>
  /\ pending = {}
  /\ workers = [w \in Workers |-> [pc |-> "idle", file |-> None, file_result |-> None, count |-> 0]]
  /\ locks = [m \in Mutexes |-> None]
  /\ results = << >>
  /\ error_count = 0
  /\ processed_count = 0
  /\ returned = FALSE

\* main is not running
NoMain ==
  [pc |-> "not_started", argc |-> 0, input |-> None, stderr |-> << >>, results |-> 0,
   closure_result |-> None, exit |-> None]

\* no path has been resolved
NoPath == [leading_colon |-> FALSE, segments |-> << >>]

\* no analyze_file is followed step by step
NoFile ==
  [pc |-> "not_started", kind |-> None, timeout |-> 0, elapsed |-> 0, long |-> << >>,
   uses |-> << >>, done |-> {}, checks |-> << >>,
   result |-> [tag |-> None, type_definitions |-> << >>]]

NoRun ==
  /\ main_run = NoMain
  /\ file_run = NoFile
  /\ uses_seen = {}
  /\ resolved = [path |-> NoPath, result |-> << >>]

(***************************************************************************)
(* FunctionVisitor (src/src/visitors/function.rs).  A function item is     *)
(* given by its name, its visibility and the unsafe qualifier of its       *)
(* signature; files without modules, so full_path = name.                  *)
(***************************************************************************)
\* FunctionVisitor::new
FunctionVisitor_new ==
  [functions |-> << >>, unsafe_functions |-> {}, current_function |-> None,
   has_unsafe |-> FALSE, in_unsafe_block |-> FALSE,
   type_definitions |-> << >>, impl_blocks |-> << >>, current_impl_type |-> None]

\* FunctionVisitor::add_function and add_impl_function
visitor_add_function(v, name, vis, is_unsafe_fn) ==
  [v EXCEPT
     !.current_function = name,
     !.has_unsafe = FALSE,
     !.functions = [p \in DOMAIN @ \cup {name} |->
                      IF p = name
                        THEN [visibility |-> vis, is_unsafe_fn |-> is_unsafe_fn,
                              has_internal_unsafe |-> FALSE, source_code |-> "fn"]
                        ELSE @[p]]]

\* FunctionVisitor::update_unsafe_state
update_unsafe_state(v) ==
  IF v.current_function # None /\ v.current_function \in DOMAIN v.functions
    THEN LET name == v.current_function IN
         [v EXCEPT
            !.functions[name].has_internal_unsafe = v.has_unsafe,
            !.unsafe_functions =
               IF v.has_unsafe \/ v.functions[name].is_unsafe_fn THEN @ \cup {name} ELSE @]
    ELSE v

\* The function item whose body is being visited is the innermost "fn" frame of
\* the stack; NoteInBody records in that frame that its body holds an unsafe
\* block ("has_block") or a function item ("nested").
InnermostFn(st) ==
  IF \E i \in DOMAIN st : st[i].kind = "fn"
    THEN CHOOSE i \in DOMAIN st :
           st[i].kind = "fn" /\ \A j \in DOMAIN st : st[j].kind = "fn" => j <= i
    ELSE 0

NoteInBody(st, what) ==
  IF InnermostFn(st) = 0 THEN st
  ELSE IF what = "nested" THEN [st EXCEPT ![InnermostFn(st)].nested = TRUE]
  ELSE [st EXCEPT ![InnermostFn(st)].has_block = TRUE]

\* NoteInBlock records in the frame of the unsafe block being visited, if any,
\* that it holds an unsafe block.
NoteInBlock(st) ==
  IF st # << >> /\ st[Len(st)].kind = "unsafe"
    THEN [st EXCEPT ![Len(st)].has_block = TRUE]
    ELSE st

\* the end of visit_expr_unsafe with the flag cleared
LeaveUnsafe_clears(v, prev_in_unsafe) == [v EXCEPT !.in_unsafe_block = FALSE]

\* self.in_unsafe_block = prev_in_unsafe
LeaveUnsafe(v, prev_in_unsafe) == [v EXCEPT !.in_unsafe_block = prev_in_unsafe]

\* visit_item_fn / visit_impl_item_fn up to the visit of the body: the item is
\* at the top level of the file or a statement of the block being visited
VisitFnEnter(name, vis, is_unsafe_fn) ==
  /\ pc = "visit"
  /\ items < MaxItems
  /\ Len(stack) < MaxNest
  /\ fn_visitor' = visitor_add_function(fn_visitor, name, vis, is_unsafe_fn)
  /\ stack' = Append(NoteInBody(stack, "nested"),
                      [kind |-> "fn", name |-> name, prev_in_unsafe |-> FALSE,
                       has_block |-> FALSE, nested |-> FALSE])
  /\ items' = items + 1
  /\ finished' = NoItem
  /\ UNCHANGED <<call_graph, pc, paths, call_visitor, sites, impls_seen, sig_type,
                 custom_types, search, parVars, runVars>>

\* visit_item_fn / visit_impl_item_fn after the visit of the body
VisitFnExit ==
  /\ pc = "visit"
  /\ stack # << >>
  /\ stack[Len(stack)].kind = "fn"
  /\ fn_visitor' = [update_unsafe_state(fn_visitor) EXCEPT !.current_function = None]
  /\ stack' = Front(stack)
  /\ finished' = [name |-> stack[Len(stack)].name,
                  has_block |-> stack[Len(stack)].has_block,
                  nested |-> stack[Len(stack)].nested]
  /\ UNCHANGED <<call_graph, pc, paths, items, call_visitor, sites, impls_seen, sig_type,
                 custom_types, search, parVars, runVars>>

\* visit_expr_unsafe up to the visit of the block
VisitUnsafeEnter ==
  /\ pc = "visit"
  /\ stack # << >>
  /\ Len(stack) < MaxNest
  /\ fn_visitor' = [fn_visitor EXCEPT !.has_unsafe = TRUE, !.in_unsafe_block = TRUE]
  /\ stack' = Append(NoteInBlock(NoteInBody(stack, "has_block")),
                      [kind |-> "unsafe", name |-> None,
                       prev_in_unsafe |-> fn_visitor.in_unsafe_block,
                       has_block |-> FALSE, nested |-> FALSE])
  /\ finished' = NoItem
  /\ UNCHANGED <<call_graph, pc, paths, items, call_visitor, sites, impls_seen, sig_type,
                 custom_types, search, parVars, runVars>>

\* visit_expr_unsafe after the visit of the block
VisitUnsafeExit ==
  /\ pc = "visit"
  /\ stack # << >>
  /\ stack[Len(stack)].kind = "unsafe"
  /\ fn_visitor' = LeaveUnsafe(fn_visitor, stack[Len(stack)].prev_in_unsafe)
  /\ stack' = Front(stack)
  /\ finished' = NoItem
  /\ UNCHANGED <<call_graph, pc, paths, items, call_visitor, sites, impls_seen, sig_type,
                 custom_types, search, parVars, runVars>>

\* fn_visitor.visit_file(&syntax) returns
VisitFileDone ==
  /\ pc = "visit"
  /\ stack = << >>
  /\ pc' = "functions"
  /\ UNCHANGED <<call_graph, paths, visitorVars, search, parVars, runVars>>

\* for (path, info) in fn_visitor.functions { call_graph.add_function(path, info) }
InsertVisited(path) ==
  /\ pc = "functions"
  /\ path \in DOMAIN fn_visitor.functions
  /\ path \notin DOMAIN call_graph.functions
  /\ call_graph' = add_function(call_graph, path, fn_visitor.functions[path])
  /\ UNCHANGED <<pc, paths, visitorVars, search, parVars, runVars>>

\* analyze_file from the function-visitor pass to the end of the loop that
\* fills the graph
VisitInit ==
  /\ call_graph = new(MaxDepth)
  /\ pc = "visit"
  /\ paths = << >>
  /\ fn_visitor = FunctionVisitor_new
  /\ stack = << >>
  /\ items = 0
  /\ finished = NoItem
  /\ call_visitor = CallVisitor_new
  /\ sites = {}
  /\ impls_seen = {}
  /\ sig_type = None
  /\ custom_types = {}
  /\ search = NoSearch
  /\ NoDirectory
  /\ NoRun

VisitNext ==
  \/ \E name \in Nodes, vis \in VisibilityKind, is_unsafe_fn \in BOOLEAN :
       VisitFnEnter(name, vis, is_unsafe_fn)
  \/ VisitFnExit
  \/ VisitUnsafeEnter
  \/ VisitUnsafeExit
  \/ VisitFileDone
  \/ \E path \in Nodes : InsertVisited(path)

VisitSpec == VisitInit /\ [][VisitNext]_vars

(***************************************************************************)
(* FunctionVisitor on type definitions and impl blocks, on a file without  *)
(* modules: visit_item_struct / visit_item_enum / visit_item_type,         *)
(* add_type_definition, is_constructor, visit_item_impl.                   *)
(***************************************************************************)
TypeNames == {"T", "U"}

\* a method of an impl block: its name, the last segment of its return type
\* (of the referenced type for a reference), the unsafe qualifier of its
\* signature
Method(name, returns, is_unsafe) ==
  [name |-> name, returns |-> returns, is_unsafe |-> is_unsafe]

\* the item lists of the impl blocks of the files
ImplBodies ==
  {<<Method("new", "Self", FALSE)>>,
   <<Method("new_unchecked", "Self", TRUE)>>,
   <<Method("new", "Self", FALSE), Method("new_unchecked", "Self", TRUE)>>,
   <<Method("from_raw", "T", TRUE), Method("len", "usize", FALSE)>>,
   <<Method("make", "T", FALSE)>>}

\* the impl blocks: `impl Default for T { fn default() -> Self }` and
\* `impl T { ... }`
ImplBlocks ==
  [self_ty : TypeNames, is_default_impl : {TRUE},
   methods : {<<Method("default", "Self", FALSE)>>}]
    \cup [self_ty : TypeNames, is_default_impl : {FALSE}, methods : ImplBodies]

\* FunctionVisitor::add_type_definition
add_type_definition(v, name) ==
  [v EXCEPT
     !.type_definitions =
        [p \in DOMAIN @ \cup {name} |->
           IF p = name THEN [name |-> name, constructors |-> << >>] ELSE @[p]]]

\* FunctionVisitor::is_constructor
is_constructor(method, type_name) ==
  method.returns = "Self" \/ method.returns = type_name

\* impl_code: the text of the whole impl block
ImplCode(i) == [type_name |-> i.self_ty, whole_block |-> TRUE, code |-> i.methods]

\* method_code: format!("impl {} {{\n    {}\n}}", type_name, method)
MethodCode(type_name, method) ==
  [type_name |-> type_name, whole_block |-> FALSE, code |-> <<method>>]

\* for (path, def) in &mut self.type_definitions: push onto every definition
\* whose name is type_name
PushConstructor(defs, type_name, code) ==
  [p \in DOMAIN defs |->
     IF p = type_name THEN [defs[p] EXCEPT !.constructors = Append(@, code)] ELSE defs[p]]

\* the test on a method of a non-Default impl block, without the test of the
\* unsafe qualifier
AppendsMethod_also_unsafe(method, type_name) == is_constructor(method, type_name)

\* if self.is_constructor(method, &type_name) { ... if !is_unsafe { ... } }
AppendsMethod(method, type_name) ==
  is_constructor(method, type_name) /\ ~method.is_unsafe

\* for item in &i.items of a non-Default impl block
RECURSIVE ExtractConstructors(_, _, _)
ExtractConstructors(defs, type_name, methods) ==
  IF methods = << >> THEN defs
  ELSE ExtractConstructors(
         IF AppendsMethod(Head(methods), type_name)
           THEN PushConstructor(defs, type_name, MethodCode(type_name, Head(methods)))
           ELSE defs,
         type_name, Tail(methods))

\* visit::visit_item_impl: visit_impl_item_fn on every method, its body without
\* unsafe block and nested item
RECURSIVE VisitImplItems(_, _)
VisitImplItems(v, methods) ==
  IF methods = << >> THEN v
  ELSE VisitImplItems(
         [update_unsafe_state(
            visitor_add_function(v, Head(methods).name, "Public", Head(methods).is_unsafe))
            EXCEPT !.current_function = None],
         Tail(methods))

\* FunctionVisitor::visit_item_impl
visit_item_impl(v, i) ==
  LET v1 == [v EXCEPT
               !.current_impl_type = i.self_ty,
               !.impl_blocks = [t \in DOMAIN @ \cup {i.self_ty} |->
                                  IF t \in DOMAIN @
                                    THEN IF t = i.self_ty THEN Append(@[t], ImplCode(i)) ELSE @[t]
                                    ELSE <<ImplCode(i)>>]]
      v2 == [v1 EXCEPT
               !.type_definitions =
                  IF i.is_default_impl
                    THEN PushConstructor(@, i.self_ty, ImplCode(i))
                    ELSE ExtractConstructors(@, i.self_ty, i.methods)]
  IN [VisitImplItems(v2, i.methods) EXCEPT !.current_impl_type = None]

\* visit_item_struct / visit_item_enum / visit_item_type
VisitTypeItem(name) ==
  /\ pc = "type_visit"
  /\ items < MaxItems
  /\ name \notin DOMAIN fn_visitor.type_definitions
  /\ fn_visitor' = add_type_definition(fn_visitor, name)
  /\ items' = items + 1
  /\ UNCHANGED <<call_graph, pc, paths, stack, finished, call_visitor, sites, impls_seen,
                 sig_type,
                 custom_types, search, parVars, runVars>>

\* visit_item_impl on an impl block the file holds once
VisitImpl(i) ==
  /\ pc = "type_visit"
  /\ items < MaxItems
  /\ i \notin impls_seen
  /\ fn_visitor' = visit_item_impl(fn_visitor, i)
  /\ impls_seen' = impls_seen \cup {i}
  /\ items' = items + 1
  /\ UNCHANGED <<call_graph, pc, paths, stack, finished, call_visitor, sites, sig_type,
                 custom_types, search, parVars, runVars>>

\* fn_visitor.visit_file(&syntax) returns
TypeFileDone ==
  /\ pc = "type_visit"
  /\ pc' = "type_done"
  /\ UNCHANGED <<call_graph, paths, visitorVars, search, parVars, runVars>>

TypeVisitInit ==
  /\ call_graph = new(MaxDepth)
  /\ pc = "type_visit"
  /\ paths = << >>
  /\ fn_visitor = FunctionVisitor_new
  /\ stack = << >>
  /\ items = 0
  /\ finished = NoItem
  /\ call_visitor = CallVisitor_new
  /\ sites = {}
  /\ impls_seen = {}
  /\ sig_type = None
  /\ custom_types = {}
  /\ search = NoSearch
  /\ NoDirectory
  /\ NoRun

TypeVisitNext ==
  \/ \E name \in TypeNames : VisitTypeItem(name)
  \/ \E i \in ImplBlocks : VisitImpl(i)
  \/ TypeFileDone

TypeVisitSpec == TypeVisitInit /\ [][TypeVisitNext]_vars

(***************************************************************************)
(* FunctionVisitor::extract_custom_types and is_primitive_type on the type *)
(* expressions of a signature.  A type expression is a record: kind        *)
(* "path" with the identifiers of its segments and the generic arguments   *)
(* of its last segment, kind "reference", "array" or "slice" with its      *)
(* element as only argument, kind "tuple" with its elements.               *)
(***************************************************************************)
\* the nesting depth of the type expressions
MaxTypeDepth == 2

PathType(segments, args) == [kind |-> "path", segments |-> segments, args |-> args]

Wrapped(kind, elem) == [kind |-> kind, segments |-> << >>, args |-> <<elem>>]

TupleType(elems) == [kind |-> "tuple", segments |-> << >>, args |-> elems]

\* the paths of the type expressions
TypePaths ==
  {<<"Foo">>, <<"Bar">>, <<"Vec">>, <<"u8">>, <<"std", "string", "String">>}

RECURSIVE TypeExprs(_)
TypeExprs(n) ==
  IF n = 0 THEN {PathType(p, << >>) : p \in TypePaths}
  ELSE LET inner == TypeExprs(n - 1) IN
       inner
         \cup {Wrapped(k, t) : k \in {"reference", "array", "slice"}, t \in inner}
         \cup {PathType(p, <<t>>) : p \in TypePaths, t \in inner}
         \cup {TupleType(<<t, u>>) : t \in inner, u \in TypeExprs(0)}

\* the table of is_primitive_type
PrimitiveTypes ==
  {"bool", "char", "str", "u8", "u16", "u32", "u64", "u128", "usize",
   "i8", "i16", "i32", "i64", "i128", "isize", "f32", "f64",
   "String", "Vec", "Option", "Result", "Box", "Rc", "Arc", "Cell", "RefCell",
   "HashMap", "HashSet", "BTreeMap", "BTreeSet", "VecDeque", "LinkedList",
   "Mutex", "RwLock", "Condvar", "Once", "Thread", "Duration", "Instant",
   "SystemTime", "Path", "PathBuf"}

\* FunctionVisitor::is_primitive_type
is_primitive_type(path) ==
  IF Len(path) # 1 THEN FALSE ELSE path[1] \in PrimitiveTypes

\* FunctionVisitor::extract_custom_types; extract_each is a loop over generic
\* arguments or tuple elements
RECURSIVE extract_custom_types(_, _)
RECURSIVE extract_each(_, _)

extract_custom_types(ty, result) ==
  CASE ty.kind = "path" /\ ~is_primitive_type(ty.segments) ->
         extract_each(ty.args, result \cup {ty.segments[Len(ty.segments)]})
    [] ty.kind = "path" /\ is_primitive_type(ty.segments) -> result
    [] ty.kind \in {"reference", "array", "slice"} ->
         extract_custom_types(ty.args[1], result)
    [] ty.kind = "tuple" -> extract_each(ty.args, result)
    [] OTHER -> result

extract_each(tys, result) ==
  IF tys = << >> THEN result
  ELSE extract_each(Tail(tys), extract_custom_types(Head(tys), result))

\* analyze_function_signature on a parameter or return type
ExtractCustomTypes ==
  /\ pc = "signature"
  /\ custom_types' = extract_custom_types(sig_type, {})
  /\ pc' = "extracted"
  /\ UNCHANGED <<call_graph, paths, fn_visitor, stack, items, finished, call_visitor, sites,
                 impls_seen, sig_type, search, parVars, runVars>>

SignatureInit ==
  /\ call_graph = new(MaxDepth)
  /\ pc = "signature"
  /\ paths = << >>
  /\ fn_visitor = FunctionVisitor_new
  /\ stack = << >>
  /\ items = 0
  /\ finished = NoItem
  /\ call_visitor = CallVisitor_new
  /\ sites = {}
  /\ impls_seen = {}
  /\ sig_type \in TypeExprs(MaxTypeDepth)
  /\ custom_types = {}
  /\ search = NoSearch
  /\ NoDirectory
  /\ NoRun

SignatureNext == ExtractCustomTypes

SignatureSpec == SignatureInit /\ [][SignatureNext]_vars

(***************************************************************************)
(* CallVisitor (src/src/visitors/call.rs) on a file without modules and    *)
(* imports: function items, possibly nested, and call sites in their       *)
(* bodies.                                                                 *)
(***************************************************************************)
\* CallVisitor::handle_call, and the same test and push of visit_expr_method_call
handle_call(v, callee) ==
  IF v.current_function # None
    THEN [v EXCEPT !.calls = Append(@, [caller |-> v.current_function, callee |-> callee])]
    ELSE v

\* visit_item_fn / visit_impl_item_fn up to the visit of the block
CallFnEnter(name) ==
  /\ pc = "call_visit"
  /\ items < MaxItems
  /\ Len(stack) < MaxNest
  /\ call_visitor' = [call_visitor EXCEPT !.current_function = name]
  /\ stack' = Append(NoteInBody(stack, "nested"),
                      [kind |-> "fn", name |-> name, prev_in_unsafe |-> FALSE,
                       has_block |-> FALSE, nested |-> FALSE])
  /\ items' = items + 1
  /\ UNCHANGED <<call_graph, pc, paths, fn_visitor, finished, sites, impls_seen, sig_type,
                 custom_types, search, parVars, runVars>>

\* visit_item_fn / visit_impl_item_fn after the visit of the block
CallFnExit ==
  /\ pc = "call_visit"
  /\ stack # << >>
  /\ call_visitor' = [call_visitor EXCEPT !.current_function = None]
  /\ stack' = Front(stack)
  /\ UNCHANGED <<call_graph, pc, paths, fn_visitor, items, finished, sites, impls_seen, sig_type,
                 custom_types, search, parVars, runVars>>

\* visit_expr_call / visit_expr_method_call on a call site of the body being
\* visited; after_nested: the site follows a function item of the same body
CallSite(callee) ==
  /\ pc = "call_visit"
  /\ stack # << >>
  /\ Cardinality(sites) < MaxCalls
  /\ LET f == stack[Len(stack)] IN
     LET site == [caller |-> f.name, callee |-> callee, after_nested |-> f.nested] IN
       /\ site \notin sites
       /\ sites' = sites \cup {site}
  /\ call_visitor' = handle_call(call_visitor, callee)
  /\ UNCHANGED <<call_graph, pc, paths, fn_visitor, stack, items, finished, impls_seen, sig_type,
                 custom_types, search, parVars, runVars>>

\* call_visitor.visit_file(&syntax) returns
CallFileDone ==
  /\ pc = "call_visit"
  /\ stack = << >>
  /\ pc' = "call_done"
  /\ UNCHANGED <<call_graph, paths, visitorVars, search, parVars, runVars>>

\* let mut call_visitor = CallVisitor::new()
CallVisitInit ==
  /\ call_graph = new(MaxDepth)
  /\ pc = "call_visit"
  /\ paths = << >>
  /\ fn_visitor = FunctionVisitor_new
  /\ stack = << >>
  /\ items = 0
  /\ finished = NoItem
  /\ call_visitor = CallVisitor_new
  /\ sites = {}
  /\ impls_seen = {}
  /\ sig_type = None
  /\ custom_types = {}
  /\ search = NoSearch
  /\ NoDirectory
  /\ NoRun

CallVisitNext ==
  \/ \E name \in Nodes : CallFnEnter(name)
  \/ CallFnExit
  \/ \E callee \in Nodes : CallSite(callee)
  \/ CallFileDone

CallVisitSpec == CallVisitInit /\ [][CallVisitNext]_vars

(***************************************************************************)
(* CallVisitor on modules, use items and the paths of call expressions:    *)
(* visit_item_mod, visit_item_use with process_use, resolve_path.  A       *)
(* string is the sequence of its tokens: identifiers and "::".             *)
(***************************************************************************)
\* the deepest nesting of modules in one visited file
MaxModules == 2
\* the largest number of use items in one visited file
MaxUses == 2

ModuleNames == {"m", "n"}

\* syn::UseTree: Name, Rename, Glob, Path, Group
UseName(ident) == [kind |-> "name", ident |-> ident, rename |-> None, items |-> << >>]

UseRename(ident, rename) ==
  [kind |-> "rename", ident |-> ident, rename |-> rename, items |-> << >>]

UseGlob == [kind |-> "glob", ident |-> None, rename |-> None, items |-> << >>]

UsePath(ident, tree) == [kind |-> "path", ident |-> ident, rename |-> None, items |-> <<tree>>]

UseGroup(trees) == [kind |-> "group", ident |-> None, rename |-> None, items |-> trees]

\* the use items of the files:
\*   use f;  use m::f;  use m::f as g;  use m::*;  use m::{f, g};
\*   use n::{g as f, *};  use crate::n::g;  use n::m;
UseTrees ==
  {UseName("f"),
   UsePath("m", UseName("f")),
   UsePath("m", UseRename("f", "g")),
   UsePath("m", UseGlob),
   UsePath("m", UseGroup(<<UseName("f"), UseName("g")>>)),
   UsePath("n", UseGroup(<<UseRename("g", "f"), UseGlob>>)),
   UsePath("crate", UsePath("n", UseName("g"))),
   UsePath("n", UseName("m"))}

\* the paths of the call expressions: f, g, m::f, n::g, crate::m::f, and the
\* first four with a leading ::
CallPaths ==
  {[leading_colon |-> l, segments |-> segs] :
     l \in BOOLEAN, segs \in {<<"f">>, <<"g">>, <<"m", "f">>, <<"n", "g">>}}
    \cup {[leading_colon |-> FALSE, segments |-> <<"crate", "m", "f">>]}

Sep == "::"

\* if prefix.is_empty() { ident } else { format!("{}::{}", prefix, ident) }
JoinPath(prefix, ident) ==
  IF prefix = << >> THEN <<ident>> ELSE prefix \o <<Sep, ident>>

\* HashMap::insert
MapInsert(m, key, value) ==
  [k \in DOMAIN m \cup {key} |-> IF k = key THEN value ELSE m[k]]

\* CallVisitor::process_use; process_group is the loop of its Group arm
RECURSIVE process_use(_, _, _)
RECURSIVE process_group(_, _, _)

process_use(imports, use_tree, prefix) ==
  CASE use_tree.kind = "path" ->
         process_use(imports, use_tree.items[1], JoinPath(prefix, use_tree.ident))
    [] use_tree.kind = "name" ->
         MapInsert(imports, use_tree.ident, JoinPath(prefix, use_tree.ident))
    [] use_tree.kind = "rename" ->
         MapInsert(imports, use_tree.rename, JoinPath(prefix, use_tree.ident))
    [] use_tree.kind = "glob" -> imports
    [] use_tree.kind = "group" -> process_group(imports, use_tree.items, prefix)

process_group(imports, trees, prefix) ==
  IF trees = << >> THEN imports
  ELSE process_group(process_use(imports, Head(trees), prefix), Tail(trees), prefix)

\* the segments of a path joined with "::"
RECURSIVE JoinSegments(_)
JoinSegments(segs) ==
  IF Len(segs) <= 1 THEN segs ELSE <<Head(segs), Sep>> \o JoinSegments(Tail(segs))

\* path.to_token_stream().to_string().replace(' ', "")
PathStr(path) ==
  (IF path.leading_colon THEN <<Sep>> ELSE << >>) \o JoinSegments(path.segments)

\* str::replacen(pat, to, 1)
ReplaceFirst(str, pat, to) ==
  IF \E i \in DOMAIN str : str[i] = pat
    THEN LET i == CHOOSE k \in DOMAIN str : str[k] = pat /\ \A j \in 1..(k - 1) : str[j] # pat
         IN SubSeq(str, 1, i - 1) \o to \o SubSeq(str, i + 1, Len(str))
    ELSE str

\* str::starts_with
StartsWith(str, prefix) ==
  Len(str) >= Len(prefix) /\ SubSeq(str, 1, Len(prefix)) = prefix

\* the relative-path step of resolve_path
PrefixModule(v, path_str) ==
  IF /\ ~StartsWith(path_str, <<"crate", Sep>>)
     /\ ~StartsWith(path_str, <<Sep>>)
     /\ v.current_module_path # << >>
    THEN JoinSegments(v.current_module_path) \o <<Sep>> \o path_str
    ELSE path_str

\* resolve_path without the return in its import arm
resolve_path_prefixes_imports(v, path) ==
  LET path_str == PathStr(path)
      first_segment == path.segments[1]
  IN IF first_segment \in DOMAIN v.imports
       THEN PrefixModule(v, ReplaceFirst(path_str, first_segment, v.imports[first_segment]))
       ELSE PrefixModule(v, path_str)

\* CallVisitor::resolve_path
resolve_path(v, path) ==
  LET path_str == PathStr(path)
      first_segment == path.segments[1]
  IN IF first_segment \in DOMAIN v.imports
       THEN ReplaceFirst(path_str, first_segment, v.imports[first_segment])
       ELSE PrefixModule(v, path_str)

\* visit_item_mod up to the visit of the items of the module
VisitModEnter(name) ==
  /\ pc = "resolve"
  /\ Len(call_visitor.current_module_path) < MaxModules
  /\ call_visitor' = [call_visitor EXCEPT !.current_module_path = Append(@, name)]
  /\ resolved' = [path |-> NoPath, result |-> << >>]
  /\ UNCHANGED <<call_graph, pc, paths, fn_visitor, stack, items, finished, sites, impls_seen,
                 sig_type, custom_types, search, parVars, main_run, file_run, uses_seen>>

\* visit_item_mod after the visit of the items of the module
VisitModExit ==
  /\ pc = "resolve"
  /\ call_visitor.current_module_path # << >>
  /\ call_visitor' = [call_visitor EXCEPT !.current_module_path = Front(@)]
  /\ resolved' = [path |-> NoPath, result |-> << >>]
  /\ UNCHANGED <<call_graph, pc, paths, fn_visitor, stack, items, finished, sites, impls_seen,
                 sig_type, custom_types, search, parVars, main_run, file_run, uses_seen>>

\* visit_item_use on a use item the file holds once
VisitUse(use_tree) ==
  /\ pc = "resolve"
  /\ Cardinality(uses_seen) < MaxUses
  /\ use_tree \notin uses_seen
  /\ call_visitor' = [call_visitor EXCEPT !.imports = process_use(@, use_tree, << >>)]
  /\ uses_seen' = uses_seen \cup {use_tree}
  /\ resolved' = [path |-> NoPath, result |-> << >>]
  /\ UNCHANGED <<call_graph, pc, paths, fn_visitor, stack, items, finished, sites, impls_seen,
                 sig_type, custom_types, search, parVars, main_run, file_run>>

\* resolve_path on the path of a call expression
ResolvePath(path) ==
  /\ pc = "resolve"
  /\ resolved' = [path |-> path, result |-> resolve_path(call_visitor, path)]
  /\ UNCHANGED <<call_graph, pc, paths, visitorVars, search, parVars, main_run, file_run,
                 uses_seen>>

\* let mut call_visitor = CallVisitor::new()
ResolveInit ==
  /\ call_graph = new(MaxDepth)
  /\ pc = "resolve"
  /\ paths = << >>
  /\ fn_visitor = FunctionVisitor_new
  /\ stack = << >>
  /\ items = 0
  /\ finished = NoItem
  /\ call_visitor = CallVisitor_new
  /\ sites = {}
  /\ impls_seen = {}
  /\ sig_type = None
  /\ custom_types = {}
  /\ search = NoSearch
  /\ NoDirectory
  /\ NoRun

ResolveNext ==
  \/ \E name \in ModuleNames : VisitModEnter(name)
  \/ VisitModExit
  \/ \E use_tree \in UseTrees : VisitUse(use_tree)
  \/ \E path \in CallPaths : ResolvePath(path)

ResolveSpec == ResolveInit /\ [][ResolveNext]_vars

(***************************************************************************)
(* analyze_directory_parallel (src/src/analysis/analyzer.rs): the files of *)
(* the directory, the workers of the rayon pool, the three mutexes.        *)
(***************************************************************************)
Files == 1..MaxFiles

\* lib.rs: DEFAULT_MAX_SEARCH_DEPTH
DEFAULT_MAX_SEARCH_DEPTH == 20

\* What a file holds: a file that cannot be read, a file whose analysis
\* panics outside the two visitor passes, a file the quick check skips, a file
\* syn cannot parse, a file on which the function visitor or the call visitor
\* panics, a file whose passes take longer than the timeout, and three files
\* that are analysed:
\*   chain:       pub fn a() { b(); }  fn b() { unsafe {} }
\*   diamond:     pub fn a() { b(); c(); }  fn b() { c(); }  fn c() { unsafe {} }
\*   two_origins: pub fn a() { c(); }  pub fn b() { c(); }  fn c() { unsafe {} }
FileKinds ==
  {"io_error", "panic", "skip", "parse_error", "fn_visitor_crash", "call_visitor_crash",
   "timeout", "chain", "diamond", "two_origins"}

PubSafeFn ==
  [visibility |-> "Public", is_unsafe_fn |-> FALSE, has_internal_unsafe |-> FALSE,
   source_code |-> "fn"]

PlainFn ==
  [visibility |-> "Module", is_unsafe_fn |-> FALSE, has_internal_unsafe |-> FALSE,
   source_code |-> "fn"]

SinkFn ==
  [visibility |-> "Module", is_unsafe_fn |-> FALSE, has_internal_unsafe |-> TRUE,
   source_code |-> "fn"]

\* the functions the function visitor finds in a file of a kind
FileFunctions(kind) ==
  CASE kind = "chain" -> [f \in {"a", "b"} |-> IF f = "a" THEN PubSafeFn ELSE SinkFn]
    [] kind = "diamond" ->
         [f \in {"a", "b", "c"} |->
            IF f = "a" THEN PubSafeFn ELSE IF f = "b" THEN PlainFn ELSE SinkFn]
    [] kind = "two_origins" ->
         [f \in {"a", "b", "c"} |-> IF f = "c" THEN SinkFn ELSE PubSafeFn]
    [] OTHER -> << >>

\* the calls the call visitor finds in a file of a kind
FileCalls(kind) ==
  CASE kind = "chain" -> <<[caller |-> "a", callee |-> "b"]>>
    [] kind = "diamond" ->
         <<[caller |-> "a", callee |-> "b"], [caller |-> "a", callee |-> "c"],
           [caller |-> "b", callee |-> "c"]>>
    [] kind = "two_origins" ->
         <<[caller |-> "a", callee |-> "c"], [caller |-> "b", callee |-> "c"]>>
    [] OTHER -> << >>

\* for (path, info) in fn_visitor.functions { call_graph.add_function(path, info) }
RECURSIVE AddFunctions(_, _, _)
AddFunctions(g, fns, todo) ==
  IF todo = << >> THEN g
  ELSE AddFunctions(add_function(g, Head(todo), fns[Head(todo)]), fns, Tail(todo))

\* for call in call_visitor.calls { call_graph.add_call(call.caller, call.callee) }
RECURSIVE AddCalls(_, _)
AddCalls(g, todo) ==
  IF todo = << >> THEN g
  ELSE AddCalls(add_call(g, Head(todo).caller, Head(todo).callee), Tail(todo))

\* the graph analyze_file builds for a file of a kind, its function map iterated
\* in the order o
FileGraph(kind, o) ==
  AddCalls(AddFunctions(new(DEFAULT_MAX_SEARCH_DEPTH), FileFunctions(kind),
                        IterOrder(DOMAIN FileFunctions(kind), o)),
           FileCalls(kind))

\* catch_unwind(|| self.analyze_file(path)) on a file of a kind, every HashMap
\* and HashSet iterated in the order o
analyze_file(file_path, kind, o) ==
  CASE kind = "io_error" -> [tag |-> "IoError", value |-> None]
    [] kind = "panic" -> [tag |-> "Panic", value |-> None]
    [] kind \in {"skip", "parse_error", "fn_visitor_crash", "call_visitor_crash",
                 "timeout"} ->
         [tag |-> "None", value |-> None]
    [] OTHER ->
         LET found == find_paths_to_unsafe(FileGraph(kind, o), o) IN
         IF found = << >>
           THEN [tag |-> "None", value |-> None]
           ELSE [tag |-> "Some", value |-> [file_path |-> file_path, paths |-> found]]

\* a worker takes a file and computes file_result
Analyze(w, f) ==
  /\ workers[w].pc = "idle"
  /\ f \in pending
  /\ pending' = pending \ {f}
  /\ \E o \in Orders :
       LET r == analyses[f][o] IN
       workers' = [workers EXCEPT
                     ![w] = [pc |-> CASE r.tag = "Some" -> "lock_results"
                                      [] r.tag = "None" -> "lock_count"
                                      [] OTHER -> "lock_errors",
                             file |-> f, file_result |-> r, count |-> 0]]
  /\ UNCHANGED <<call_graph, pc, paths, visitorVars, search, runVars, contents, analyses, locks, results,
                 error_count, processed_count, returned>>

\* lock() that does not wait for the guard to be free
Lock_without_waiting(w, at, m, then) ==
  /\ workers[w].pc = at
  /\ locks' = [locks EXCEPT ![m] = w]
  /\ workers' = [workers EXCEPT ![w].pc = then]
  /\ UNCHANGED <<call_graph, pc, paths, visitorVars, search, runVars, contents, analyses, pending, results,
                 error_count, processed_count, returned>>

\* mutex.lock().unwrap(): the worker goes on when it holds the guard
Lock(w, at, m, then) ==
  /\ workers[w].pc = at
  /\ locks[m] = None
  /\ locks' = [locks EXCEPT ![m] = w]
  /\ workers' = [workers EXCEPT ![w].pc = then]
  /\ UNCHANGED <<call_graph, pc, paths, visitorVars, search, runVars, contents, analyses, pending, results,
                 error_count, processed_count, returned>>

\* results.lock().unwrap()
LockResults(w) == Lock(w, "lock_results", "results", "push")

\* results_guard.push(file_result) with the guard replaced by the new value
PushResult_overwrites(list, r) == <<r>>

\* results_guard.push(file_result)
PushResult(list, r) == Append(list, r)

\* the push, and the guard dropped at the end of the match arm
Push(w) ==
  /\ workers[w].pc = "push"
  /\ results' = PushResult(results, workers[w].file_result.value)
  /\ locks' = [locks EXCEPT !["results"] = None]
  /\ workers' = [workers EXCEPT ![w].pc = "lock_count"]
  /\ UNCHANGED <<call_graph, pc, paths, visitorVars, search, runVars, contents, analyses, pending,
                 error_count, processed_count, returned>>

\* error_count.lock().unwrap() in the two error arms
LockErrors(w) == Lock(w, "lock_errors", "error_count", "count_error")

\* *count += 1 on error_count: the load
LoadErrorCount(w) ==
  /\ workers[w].pc = "count_error"
  /\ workers' = [workers EXCEPT ![w].pc = "store_error", ![w].count = error_count]
  /\ UNCHANGED <<call_graph, pc, paths, visitorVars, search, runVars, contents, analyses, pending, locks,
                 results, error_count, processed_count, returned>>

\* *count += 1 on error_count: the store, and the guard dropped
CountError(w) ==
  /\ workers[w].pc = "store_error"
  /\ error_count' = workers[w].count + 1
  /\ locks' = [locks EXCEPT !["error_count"] = None]
  /\ workers' = [workers EXCEPT ![w].pc = "lock_count", ![w].count = 0]
  /\ UNCHANGED <<call_graph, pc, paths, visitorVars, search, runVars, contents, analyses, pending, results,
                 processed_count, returned>>

\* processed_count.lock().unwrap()
LockCount(w) == Lock(w, "lock_count", "processed_count", "count_processed")

\* the closure handing the error of the file on to try_for_each
ClosureResult_propagates(file_result) ==
  IF file_result.tag \in {"IoError", "Panic"} THEN "Err" ELSE "Ok"

\* the value of the closure of try_for_each: Ok(()) after every match arm
ClosureResult(file_result) == "Ok"

\* *count += 1 on processed_count, the guard dropped, the closure returns; on
\* an Err try_for_each starts no further file
CountProcessed(w) ==
  /\ workers[w].pc = "count_processed"
  /\ processed_count' = processed_count + 1
  /\ locks' = [locks EXCEPT !["processed_count"] = None]
  /\ pending' = IF ClosureResult(workers[w].file_result) = "Err" THEN {} ELSE pending
  /\ workers' = [workers EXCEPT
                   ![w] = [pc |-> "idle", file |-> None, file_result |-> None, count |-> 0]]
  /\ UNCHANGED <<call_graph, pc, paths, visitorVars, search, runVars, contents, analyses, results,
                 error_count, returned>>

\* try_for_each is over: analyze_directory_parallel returns Ok(())
Return ==
  /\ ~returned
  /\ pending = {}
  /\ \A w \in Workers : workers[w].pc = "idle"
  /\ returned' = TRUE
  /\ UNCHANGED <<call_graph, pc, paths, visitorVars, search, runVars, contents, analyses, pending, workers,
                 locks, results, error_count, processed_count>>

\* analyze_directory_parallel after collect_rust_files
ParallelInit ==
  /\ call_graph = new(DEFAULT_MAX_SEARCH_DEPTH)
  /\ pc = "directory"
  /\ paths = << >>
  /\ fn_visitor = FunctionVisitor_new
  /\ stack = << >>
  /\ items = 0
  /\ finished = NoItem
  /\ call_visitor = CallVisitor_new
  /\ sites = {}
  /\ impls_seen = {}
  /\ sig_type = None
  /\ custom_types = {}
  /\ search = NoSearch
  /\ contents \in [Files -> FileKinds]
  /\ analyses = [f \in Files |-> [o \in Orders |-> analyze_file(f, contents[f], o)]]
  /\ pending = Files
  /\ workers = [w \in Workers |-> [pc |-> "idle", file |-> None, file_result |-> None, count |-> 0]]
  /\ locks = [m \in Mutexes |-> None]
  /\ results = << >>
  /\ error_count = 0
  /\ processed_count = 0
  /\ returned = FALSE
  /\ NoRun

ParallelNext ==
  \/ \E w \in Workers, f \in Files : Analyze(w, f)
  \/ \E w \in Workers : LockResults(w)
  \/ \E w \in Workers : Push(w)
  \/ \E w \in Workers : LockErrors(w)
  \/ \E w \in Workers : LoadErrorCount(w)
  \/ \E w \in Workers : CountError(w)
  \/ \E w \in Workers : LockCount(w)
  \/ \E w \in Workers : CountProcessed(w)
  \/ Return

\* every worker of the pool keeps running, and the caller of try_for_each goes
\* on once the pool is done
ParallelSpec ==
  /\ ParallelInit
  /\ [][ParallelNext]_vars
  /\ \A w \in Workers :
       WF_vars(\/ \E f \in Files : Analyze(w, f)
               \/ LockResults(w) \/ Push(w) \/ LockErrors(w) \/ LoadErrorCount(w)
               \/ CountError(w) \/ LockCount(w) \/ CountProcessed(w))
  /\ WF_vars(Return)

(***************************************************************************)
(* analyze_file (src/src/analysis/analyzer.rs) step by step, with the time *)
(* since start_time: the quick check, the read, the parse, the two visitor *)
(* passes, the timeout test, the construction of the graph, the search,    *)
(* the loop that collects the type definitions.  The files are the ones of *)
(* FileKinds, with one type definition, struct T, and                      *)
(* impl T { fn new() -> Self }.                                            *)
(***************************************************************************)
\* the longest time, in units of the clock, for which a run is followed
MaxElapsed == 3

\* the values of self.timeout, in units of the clock
Timeouts == 1..(MaxElapsed - 1)

FileRunKinds == FileKinds \ {"panic", "timeout"}

GraphKinds == {"chain", "diamond", "two_origins"}

\* how the signature of a function mentions the type T
TypeUses == {"none", "param", "return"}

\* source_code of a function: to_token_stream().to_string(), one line, of more
\* than 100 characters or not
SourceText(f, long) == [of |-> f, long |-> long, lines |-> "one"]

\* utils::enhanced_format_source_code on a complete function: a single line of
\* more than 100 characters goes through format_single_long_line, which breaks
\* it after every brace and semicolon; a shorter one is returned as it is
enhanced_format_source_code(source_code) ==
  IF source_code.lines = "one" /\ source_code.long
    THEN [source_code EXCEPT !.lines = "many"]
    ELSE source_code

\* the PathNodeInfo of the paths, with the fields the loop over the type
\* definitions reads
AnnotatePath(path, run) ==
  [k \in DOMAIN path |->
     LET f == path[k].full_path IN
     [full_path |-> f,
      source_code |-> SourceText(f, run.long[f]),
      param_custom_types |-> IF run.uses[f] = "param" THEN {"T"} ELSE {},
      return_custom_types |-> IF run.uses[f] = "return" THEN {"T"} ELSE {}]]

\* fn_visitor.type_definitions of the files
FileTypeDefinitions ==
  [t \in {"T"} |->
     [name |-> t,
      constructors |-> <<[type_name |-> t, chain |-> 0, step |-> 0, fn_name |-> "new",
                          relation |-> "constructor",
                          code |-> SourceText("new", FALSE)]>>]]

\* path_index: the position of the first path with the same full_path values
PathIndex(all_paths, path) ==
  LET same == {i \in DOMAIN all_paths :
                 /\ Len(all_paths[i]) = Len(path)
                 /\ \A j \in DOMAIN path : all_paths[i][j].full_path = path[j].full_path}
  IN IF same = {} THEN 1 ELSE CHOOSE i \in same : \A j \in same : i <= j

\* relation_type
RelationType(node, type_name) ==
  IF type_name \in node.param_custom_types /\ type_name \in node.return_custom_types
    THEN "parameters and return value"
    ELSE IF type_name \in node.param_custom_types THEN "parameters" ELSE "return value"

\* method_code
StepCode(def_name, path_index, step_index, node, type_name) ==
  [type_name |-> def_name, chain |-> path_index, step |-> step_index,
   fn_name |-> node.full_path, relation |-> RelationType(node, type_name),
   code |-> enhanced_format_source_code(node.source_code)]

\* existing_code.contains(&node.source_code): the text of the function, as
\* the visitor stored it, occurs in the entry
Contains(existing_code, source_code) == existing_code.code = source_code

\* for (step_index, node) in path.iter().enumerate()
RECURSIVE AddPathFunctions(_, _, _, _, _)
AddPathFunctions(constructors, path, step_index, path_index, type_name) ==
  IF step_index > Len(path) THEN constructors
  ELSE LET node == path[step_index]
           operates_on_type ==
             type_name \in node.param_custom_types \/ type_name \in node.return_custom_types
           already_exists ==
             \E k \in DOMAIN constructors : Contains(constructors[k], node.source_code)
       IN AddPathFunctions(
            IF operates_on_type /\ ~already_exists
              THEN Append(constructors,
                          StepCode(type_name, path_index, step_index, node, type_name))
              ELSE constructors,
            path, step_index + 1, path_index, type_name)

\* for path in &paths: the type definitions named by the parameter types of
\* the first node
RECURSIVE CollectTypeDefinitions(_, _, _, _)
CollectTypeDefinitions(path_type_defs, type_definitions, all_paths, i) ==
  IF i > Len(all_paths) THEN path_type_defs
  ELSE LET path == all_paths[i]
           named == IF path = << >> THEN {}
                    ELSE DOMAIN type_definitions \cap path[1].param_custom_types
       IN IF named = {}
            THEN CollectTypeDefinitions(path_type_defs, type_definitions, all_paths, i + 1)
            ELSE LET t == CHOOSE n \in named : TRUE
                     def == type_definitions[t]
                     entry == IF t \in DOMAIN path_type_defs THEN path_type_defs[t] ELSE def
                     constructors == IF entry.constructors = << >>
                                       THEN def.constructors ELSE entry.constructors
                 IN CollectTypeDefinitions(
                      MapInsert(path_type_defs, t,
                                [entry EXCEPT !.constructors =
                                   AddPathFunctions(constructors, path, 1,
                                                    PathIndex(all_paths, path), t)]),
                      type_definitions, all_paths, i + 1)

\* the timeout test with > in place of >=
TimedOut_strictly(elapsed, timeout) == elapsed > timeout

\* if start_time.elapsed() >= self.timeout
TimedOut(elapsed, timeout) == elapsed >= timeout

\* analyze_file returns
FileReturn(run, tag, type_definitions) ==
  [run EXCEPT !.pc = "returned",
              !.result = [tag |-> tag, type_definitions |-> type_definitions]]

\* time passes while analyze_file runs
Tick ==
  /\ file_run.pc \in {"read", "parse", "fn_visitor", "call_visitor", "timeout_check",
                      "build_graph", "find_paths", "type_definitions"}
  /\ file_run.elapsed < MaxElapsed
  /\ file_run' = [file_run EXCEPT !.elapsed = @ + 1]
  /\ UNCHANGED <<call_graph, pc, paths, visitorVars, search, parVars, main_run, resolveVars>>

\* should_analyze_file, then let start_time = Instant::now()
FileQuickCheck ==
  /\ file_run.pc = "quick_check"
  /\ file_run' = CASE file_run.kind = "io_error" -> FileReturn(file_run, "Err", << >>)
                   [] file_run.kind = "skip" -> FileReturn(file_run, "None", << >>)
                   [] OTHER -> [file_run EXCEPT !.pc = "read", !.elapsed = 0]
  /\ UNCHANGED <<call_graph, pc, paths, visitorVars, search, parVars, main_run, resolveVars>>

\* fs::read_to_string
FileRead ==
  /\ file_run.pc = "read"
  /\ file_run' = [file_run EXCEPT !.pc = "parse"]
  /\ UNCHANGED <<call_graph, pc, paths, visitorVars, search, parVars, main_run, resolveVars>>

\* syn::parse_file
FileParse ==
  /\ file_run.pc = "parse"
  /\ file_run' = IF file_run.kind = "parse_error"
                   THEN FileReturn(file_run, "None", << >>)
                   ELSE [file_run EXCEPT !.pc = "fn_visitor"]
  /\ UNCHANGED <<call_graph, pc, paths, visitorVars, search, parVars, main_run, resolveVars>>

\* the function-visitor pass under catch_unwind
FileFnVisitor ==
  /\ file_run.pc = "fn_visitor"
  /\ file_run' = IF file_run.kind = "fn_visitor_crash"
                   THEN FileReturn(file_run, "None", << >>)
                   ELSE [file_run EXCEPT !.pc = "call_visitor", !.done = @ \cup {"fn_visitor"}]
  /\ UNCHANGED <<call_graph, pc, paths, visitorVars, search, parVars, main_run, resolveVars>>

\* the call-visitor pass under catch_unwind
FileCallVisitor ==
  /\ file_run.pc = "call_visitor"
  /\ file_run' = IF file_run.kind = "call_visitor_crash"
                   THEN FileReturn(file_run, "None", << >>)
                   ELSE [file_run EXCEPT !.pc = "timeout_check",
                                         !.done = @ \cup {"call_visitor"}]
  /\ UNCHANGED <<call_graph, pc, paths, visitorVars, search, parVars, main_run, resolveVars>>

\* the timeout test
FileTimeoutCheck ==
  /\ file_run.pc = "timeout_check"
  /\ LET checked == [file_run EXCEPT
                       !.checks = Append(@, [elapsed |-> file_run.elapsed,
                                             done |-> file_run.done])]
     IN file_run' = IF TimedOut(file_run.elapsed, file_run.timeout)
                      THEN FileReturn(checked, "None", << >>)
                      ELSE [checked EXCEPT !.pc = "build_graph"]
  /\ UNCHANGED <<call_graph, pc, paths, visitorVars, search, parVars, main_run, resolveVars>>

\* CallGraph::new and the loops of add_function and add_call
FileBuildGraph ==
  /\ file_run.pc = "build_graph"
  /\ \E o \in Orders : call_graph' = FileGraph(file_run.kind, o)
  /\ file_run' = [file_run EXCEPT !.pc = "find_paths", !.done = @ \cup {"graph"}]
  /\ UNCHANGED <<pc, paths, visitorVars, search, parVars, main_run, resolveVars>>

\* let paths = call_graph.find_paths_to_unsafe(); if paths.is_empty() { return Ok(None) }
FileFindPaths ==
  /\ file_run.pc = "find_paths"
  /\ \E o \in Orders :
       LET found == find_paths_to_unsafe(call_graph, o) IN
       /\ paths' = [i \in DOMAIN found |-> AnnotatePath(found[i], file_run)]
       /\ file_run' = IF found = << >>
                        THEN FileReturn([file_run EXCEPT !.done = @ \cup {"search"}],
                                        "None", << >>)
                        ELSE [file_run EXCEPT !.pc = "type_definitions",
                                              !.done = @ \cup {"search"}]
  /\ UNCHANGED <<call_graph, pc, visitorVars, search, parVars, main_run, resolveVars>>

\* the loop over the paths that fills path_type_defs, and Ok(Some(..))
FileCollect ==
  /\ file_run.pc = "type_definitions"
  /\ file_run' = FileReturn(file_run, "Some",
                            CollectTypeDefinitions(<< >>, FileTypeDefinitions, paths, 1))
  /\ UNCHANGED <<call_graph, pc, paths, visitorVars, search, parVars, main_run, resolveVars>>

\* analyze_file is called on a file
FileInit ==
  /\ call_graph = new(DEFAULT_MAX_SEARCH_DEPTH)
  /\ pc = "file"
  /\ paths = << >>
  /\ fn_visitor = FunctionVisitor_new
  /\ stack = << >>
  /\ items = 0
  /\ finished = NoItem
  /\ call_visitor = CallVisitor_new
  /\ sites = {}
  /\ impls_seen = {}
  /\ sig_type = None
  /\ custom_types = {}
  /\ search = NoSearch
  /\ NoDirectory
  /\ main_run = NoMain
  /\ uses_seen = {}
  /\ resolved = [path |-> NoPath, result |-> << >>]
  /\ \E kind \in FileRunKinds, timeout \in Timeouts :
       \E long \in [Nodes -> BOOLEAN], uses \in [Nodes -> TypeUses] :
         /\ kind \notin GraphKinds =>
              long = [f \in Nodes |-> FALSE] /\ uses = [f \in Nodes |-> "none"]
         /\ file_run = [NoFile EXCEPT !.pc = "quick_check", !.kind = kind,
                                      !.timeout = timeout, !.long = long, !.uses = uses]

FileNext ==
  \/ Tick
  \/ FileQuickCheck
  \/ FileRead
  \/ FileParse
  \/ FileFnVisitor
  \/ FileCallVisitor
  \/ FileTimeoutCheck
  \/ FileBuildGraph
  \/ FileFindPaths
  \/ FileCollect

FileSpec == FileInit /\ [][FileNext]_vars

(***************************************************************************)
(* main (src/src/main.rs): the command line, the checks of the input path, *)
(* the analysis and the write of the report inside catch_unwind, the match *)
(* on what catch_unwind returned.  The arguments are valid Unicode.        *)
(***************************************************************************)
\* what the input path names
InputKinds == {"missing", "directory", "rs_file", "other_file"}

\* eprintln!
Log(run, line) == [run EXCEPT !.stderr = Append(@, line)]

\* the match on the value of catch_unwind, with the panic handed on as an error
MainReturn_propagates_panic(closure_result) ==
  IF closure_result = "Panic" THEN "Err" ELSE closure_result

\* match result { Ok(io_result) => io_result, Err(_) => Ok(()) }
MainReturn(closure_result) ==
  IF closure_result = "Panic" THEN "Ok" ELSE closure_result

\* set_hook, args().collect(), the test of args.len()
MainArgs ==
  /\ main_run.pc = "start"
  /\ main_run' = IF main_run.argc < 2
                   THEN [Log(main_run, "usage") EXCEPT !.pc = "exited", !.exit = "Ok"]
                   ELSE [main_run EXCEPT !.pc = "closure"]
  /\ UNCHANGED <<call_graph, pc, paths, visitorVars, search, parVars, file_run, resolveVars>>

\* in the closure: StaticAnalyzer::new and the test of input_path.exists()
CheckPath ==
  /\ main_run.pc = "closure"
  /\ main_run' = IF main_run.input = "missing"
                   THEN [Log(main_run, "path_missing") EXCEPT
                           !.pc = "match", !.closure_result = "Ok"]
                   ELSE [main_run EXCEPT !.pc = "analyze"]
  /\ UNCHANGED <<call_graph, pc, paths, visitorVars, search, parVars, file_run, resolveVars>>

\* if input_path.is_dir(): analyze_directory_parallel returns r, having pushed
\* n results
AnalyzeDirectory(r, n) ==
  /\ main_run.pc = "analyze"
  /\ main_run.input = "directory"
  /\ main_run' = [(IF r = "Err" THEN Log(main_run, "directory_error") ELSE main_run) EXCEPT
                    !.pc = "write", !.results = n]
  /\ UNCHANGED <<call_graph, pc, paths, visitorVars, search, parVars, file_run, resolveVars>>

\* else if the extension is rs: the match on analyze_file
AnalyzeFile(r) ==
  /\ main_run.pc = "analyze"
  /\ main_run.input = "rs_file"
  /\ main_run' = [(IF r = "Err" THEN Log(main_run, "file_error") ELSE main_run) EXCEPT
                    !.pc = "write", !.results = IF r = "Some" THEN 1 ELSE 0]
  /\ UNCHANGED <<call_graph, pc, paths, visitorVars, search, parVars, file_run, resolveVars>>

\* else: neither a directory nor a .rs file
RejectInput ==
  /\ main_run.pc = "analyze"
  /\ main_run.input = "other_file"
  /\ main_run' = [Log(main_run, "not_rust") EXCEPT !.pc = "match", !.closure_result = "Ok"]
  /\ UNCHANGED <<call_graph, pc, paths, visitorVars, search, parVars, file_run, resolveVars>>

\* write_results_to_file returns r; the closure returns Ok(())
WriteResults(r) ==
  /\ main_run.pc = "write"
  /\ main_run' = [(IF r = "Err" THEN Log(main_run, "write_error") ELSE main_run) EXCEPT
                    !.pc = "match", !.closure_result = "Ok"]
  /\ UNCHANGED <<call_graph, pc, paths, visitorVars, search, parVars, file_run, resolveVars>>

\* a panic in the closure: the hook writes its lines, catch_unwind returns Err
PanicInClosure ==
  /\ main_run.pc \in {"closure", "analyze", "write"}
  /\ main_run' = [Log(main_run, "panic_hook") EXCEPT !.pc = "match", !.closure_result = "Panic"]
  /\ UNCHANGED <<call_graph, pc, paths, visitorVars, search, parVars, file_run, resolveVars>>

\* the match on the value of catch_unwind: main returns
MainMatch ==
  /\ main_run.pc = "match"
  /\ main_run' = [(IF main_run.closure_result = "Panic"
                     THEN Log(main_run, "unrecoverable") ELSE main_run) EXCEPT
                    !.pc = "exited", !.exit = MainReturn(main_run.closure_result)]
  /\ UNCHANGED <<call_graph, pc, paths, visitorVars, search, parVars, file_run, resolveVars>>

\* the process starts with the program name and up to two arguments
MainInit ==
  /\ call_graph = new(DEFAULT_MAX_SEARCH_DEPTH)
  /\ pc = "main"
  /\ paths = << >>
  /\ fn_visitor = FunctionVisitor_new
  /\ stack = << >>
  /\ items = 0
  /\ finished = NoItem
  /\ call_visitor = CallVisitor_new
  /\ sites = {}
  /\ impls_seen = {}
  /\ sig_type = None
  /\ custom_types = {}
  /\ search = NoSearch
  /\ NoDirectory
  /\ \E argc \in 1..3, input \in InputKinds :
       main_run = [NoMain EXCEPT !.pc = "start", !.argc = argc, !.input = input]
  /\ file_run = NoFile
  /\ uses_seen = {}
  /\ resolved = [path |-> NoPath, result |-> << >>]

MainNext ==
  \/ MainArgs
  \/ CheckPath
  \/ \E r \in {"Ok", "Err"}, n \in 0..MaxFiles : AnalyzeDirectory(r, n)
  \/ \E r \in {"Some", "None", "Err"} : AnalyzeFile(r)
  \/ RejectInput
  \/ \E r \in {"Ok", "Err"} : WriteResults(r)
  \/ PanicInClosure
  \/ MainMatch

MainSpec == MainInit /\ [][MainNext]_vars

(***************************************************************************)
(* analyze_file, from the construction of the graph on.                    *)
(***************************************************************************)
\* let mut call_graph = CallGraph::new(self.max_search_depth)
Init ==
  /\ \E max_depth \in Depths : call_graph = new(max_depth)
  /\ pc = "functions"
  /\ paths = << >>
  /\ fn_visitor = FunctionVisitor_new
  /\ stack = << >>
  /\ items = 0
  /\ finished = NoItem
  /\ call_visitor = CallVisitor_new
  /\ sites = {}
  /\ impls_seen = {}
  /\ sig_type = None
  /\ custom_types = {}
  /\ search = NoSearch
  /\ NoDirectory
  /\ NoRun

\* for (path, info) in fn_visitor.functions { call_graph.add_function(path, info) }
\* (the keys of a HashMap: no path comes twice)
AddFunction(path, info) ==
  /\ pc = "functions"
  /\ path \notin DOMAIN call_graph.functions
  /\ call_graph' = add_function(call_graph, path, info)
  /\ UNCHANGED <<pc, paths, visitorVars, search, parVars, runVars>>

\* for call in call_visitor.calls { call_graph.add_call(call.caller, call.callee) }
AddCall(caller, callee) ==
  /\ pc \in {"functions", "calls"}
  /\ <<caller, callee>> \notin Edges(call_graph.calls)
  /\ Cardinality(Edges(call_graph.calls)) < MaxCalls
  /\ call_graph' = add_call(call_graph, caller, callee)
  /\ pc' = "calls"
  /\ UNCHANGED <<paths, visitorVars, search, parVars, runVars>>

\* let paths = call_graph.find_paths_to_unsafe()
FindPaths ==
  /\ pc \in {"functions", "calls"}
  /\ \E o \in Orders : paths' = find_paths_to_unsafe(call_graph, o)
  /\ pc' = "done"
  /\ UNCHANGED <<call_graph, visitorVars, search, parVars, runVars>>

Next ==
  \/ \E path \in Nodes, info \in FunctionInfo : AddFunction(path, info)
  \/ \E caller \in Nodes, callee \in Nodes : AddCall(caller, callee)
  \/ FindPaths

Spec == Init /\ [][Next]_vars

(***************************************************************************)
(* find_paths_to_unsafe step by step: one step per iteration of the loop   *)
(* over the origins, per iteration of the while let loop of                *)
(* precompute_reachable_targets, and per call and return of                *)
(* dfs_find_valid_paths.  A HashSet is iterated in any order.              *)
(***************************************************************************)
\* the classifications of the graphs searched step by step: a public safe
\* function, a private safe function, a private function with an unsafe block
SearchInfos ==
  {info \in FunctionInfo :
     /\ ~info.is_unsafe_fn
     /\ info.visibility = "Public" => ~info.has_internal_unsafe}

\* a call dfs_find_valid_paths(current, targets, visited, path, all_paths, depth)
\* up to its loop over the callees: s holds visited, path, all_paths and the
\* calls in progress
dfs_call(g, s, current, depth) ==
  IF \/ DepthExceeded(g, depth)
     \/ current \in s.visited
     \/ PruneIntermediate(g, current, s.targets, s.path)
    THEN s
    ELSE [s EXCEPT
            !.visited = @ \cup {current},
            !.path = Append(@, current),
            !.all_paths = IF current \in s.targets THEN Append(@, Append(s.path, current)) ELSE @,
            !.frames = Append(@, [current |-> current,
                                  callees_left |->
                                    IF current \notin s.targets /\ current \in DOMAIN g.calls
                                      THEN g.calls[current] ELSE {}])]

\* find_paths_to_unsafe up to its loop over public_non_unsafe_functions, the
\* sets iterated in one of the given orders
SearchStartWith(orders) ==
  /\ pc \in {"functions", "calls"}
  /\ \E o \in orders :
       search' = [NoSearch EXCEPT
                    !.all_paths = DirectPaths(call_graph, o),
                    !.origins_left = call_graph.public_non_unsafe_functions]
  /\ pc' = "origins"
  /\ UNCHANGED <<call_graph, paths, visitorVars, parVars, runVars>>

SearchStart == SearchStartWith(Orders)

\* one iteration of the loop over public_non_unsafe_functions, up to the call
\* of precompute_reachable_targets
NextOrigin(pub_fn) ==
  /\ pc = "origins"
  /\ pub_fn \in search.origins_left
  /\ IF pub_fn \notin call_graph.public_unsafe_functions
       THEN /\ search' = [search EXCEPT
                            !.origins_left = @ \ {pub_fn},
                            !.pub_fn = pub_fn,
                            !.targets = call_graph.unsafe_functions
                                          \ call_graph.public_unsafe_functions,
                            !.queue = <<pub_fn>>,
                            !.bfs_visited = {pub_fn},
                            !.reachable = {}]
            /\ pc' = "bfs"
       ELSE /\ search' = [search EXCEPT !.origins_left = @ \ {pub_fn}]
            /\ pc' = "origins"
  /\ UNCHANGED <<call_graph, paths, visitorVars, parVars, runVars>>

\* one iteration of the while let loop of precompute_reachable_targets, the
\* callees iterated in one of the given orders
BfsStepWith(orders) ==
  /\ pc = "bfs"
  /\ search.queue # << >>
  /\ \E o \in orders :
       LET current == Head(search.queue)
           st == IF current \in DOMAIN call_graph.calls
                   THEN bfs_callees(IterOrder(call_graph.calls[current], o),
                                    [visited |-> search.bfs_visited,
                                     queue |-> Tail(search.queue)])
                   ELSE [visited |-> search.bfs_visited, queue |-> Tail(search.queue)]
       IN search' = [search EXCEPT
                       !.reachable = IF current \in search.targets
                                       THEN @ \cup {current} ELSE @,
                       !.queue = st.queue,
                       !.bfs_visited = st.visited]
  /\ UNCHANGED <<call_graph, pc, paths, visitorVars, parVars, runVars>>

BfsStep == BfsStepWith(Orders)

\* precompute_reachable_targets returns; when a target is reachable,
\* find_valid_paths makes the first call of dfs_find_valid_paths
BfsDone ==
  /\ pc = "bfs"
  /\ search.queue = << >>
  /\ IF search.reachable # {}
       THEN LET s1 == dfs_call(call_graph,
                               [search EXCEPT !.targets = search.reachable,
                                              !.visited = {}, !.path = << >>,
                                              !.frames = << >>],
                               search.pub_fn, 0)
            IN /\ search' = s1
               /\ pc' = IF s1.frames = << >> THEN "origins" ELSE "dfs"
       ELSE /\ search' = search
            /\ pc' = "origins"
  /\ UNCHANGED <<call_graph, paths, visitorVars, parVars, runVars>>

\* one iteration of the loop over the callees in the innermost call of
\* dfs_find_valid_paths: the recursive call, up to its own loop
DfsCallee(callee) ==
  /\ pc = "dfs"
  /\ LET n == Len(search.frames) IN
     /\ callee \in search.frames[n].callees_left
     /\ search' = dfs_call(call_graph,
                           [search EXCEPT !.frames[n].callees_left = @ \ {callee}],
                           callee, n)
  /\ UNCHANGED <<call_graph, pc, paths, visitorVars, parVars, runVars>>

\* the innermost call of dfs_find_valid_paths backtracks and returns
DfsReturn ==
  /\ pc = "dfs"
  /\ LET n == Len(search.frames)
         b == Backtrack([visited |-> search.visited, path |-> search.path,
                         all_paths |-> search.all_paths],
                        search.frames[n].current)
     IN /\ search.frames[n].callees_left = {}
        /\ search' = [search EXCEPT !.visited = b.visited, !.path = b.path,
                                    !.all_paths = b.all_paths,
                                    !.frames = Front(@)]
        /\ pc' = IF n = 1 THEN "origins" ELSE "dfs"
  /\ UNCHANGED <<call_graph, paths, visitorVars, parVars, runVars>>

\* the loop over the origins is over: filter, convert and return
SearchFinish ==
  /\ pc = "origins"
  /\ search.origins_left = {}
  /\ LET kept == SelectSeq(search.all_paths, LAMBDA p : KeepPath(call_graph, p))
     IN paths' = [i \in 1..Len(kept) |-> convert_path_to_node_info(call_graph, kept[i])]
  /\ search' = [NoSearch EXCEPT !.all_paths = search.all_paths]
  /\ pc' = "done"
  /\ UNCHANGED <<call_graph, visitorVars, parVars, runVars>>

\* the steps of one find_paths_to_unsafe
SearchStep ==
  \/ SearchStart
  \/ \E pub_fn \in Nodes : NextOrigin(pub_fn)
  \/ BfsStep
  \/ BfsDone
  \/ \E callee \in Nodes : DfsCallee(callee)
  \/ DfsReturn
  \/ SearchFinish

SearchNext ==
  \/ \E path \in Nodes, info \in SearchInfos : AddFunction(path, info)
  \/ \E caller \in Nodes, callee \in Nodes : AddCall(caller, callee)
  \/ SearchStep

\* the thread that runs find_paths_to_unsafe keeps running
SearchSpec == Init /\ [][SearchNext]_vars /\ WF_vars(SearchStep)

(***************************************************************************)
(* The same steps on the diamond a -> b -> d, a -> c -> d, the four        *)
(* functions classified in every way.                                      *)
(***************************************************************************)
DiamondNodes == {"a", "b", "c", "d"}

\* every order in which a HashSet over DiamondNodes may be iterated
DiamondOrders ==
  {o \in [1..4 -> DiamondNodes] : \A n \in DiamondNodes : \E i \in 1..4 : o[i] = n}

DiamondCalls ==
  <<[caller |-> "a", callee |-> "b"], [caller |-> "b", callee |-> "d"],
    [caller |-> "a", callee |-> "c"], [caller |-> "c", callee |-> "d"]>>

\* analyze_file has filled the graph from a file with the four functions
DiamondInit ==
  /\ \E max_depth \in Depths, infos \in [DiamondNodes -> FunctionInfo] :
       call_graph = AddCalls(AddFunctions(new(max_depth), infos, <<"a", "b", "c", "d">>),
                             DiamondCalls)
  /\ pc = "calls"
  /\ paths = << >>
  /\ fn_visitor = FunctionVisitor_new
  /\ stack = << >>
  /\ items = 0
  /\ finished = NoItem
  /\ call_visitor = CallVisitor_new
  /\ sites = {}
  /\ impls_seen = {}
  /\ sig_type = None
  /\ custom_types = {}
  /\ search = NoSearch
  /\ NoDirectory
  /\ NoRun

DiamondNext ==
  \/ SearchStartWith(DiamondOrders)
  \/ \E pub_fn \in DiamondNodes : NextOrigin(pub_fn)
  \/ BfsStepWith(DiamondOrders)
  \/ BfsDone
  \/ \E callee \in DiamondNodes : DfsCallee(callee)
  \/ DfsReturn
  \/ SearchFinish

DiamondSpec == DiamondInit /\ [][DiamondNext]_vars

(***************************************************************************)
(* Vocabulary of the properties.                                           *)
(***************************************************************************)
\* the function paths of one returned path
PathNames(p) == [i \in DOMAIN p |-> p[i].full_path]

\* the returned paths, as a set of sequences of function paths
ReturnedPaths == {PathNames(paths[i]) : i \in DOMAIN paths}

\* what the record of f in the graph says
IsPublic(f) ==
  f \in DOMAIN call_graph.functions /\ call_graph.functions[f].visibility = "Public"

IsUnsafeDeclared(f) ==
  f \in DOMAIN call_graph.functions /\ call_graph.functions[f].is_unsafe_fn

HasInternalUnsafe(f) ==
  f \in DOMAIN call_graph.functions /\ call_graph.functions[f].has_internal_unsafe

\* the sequences of distinct function paths
Chains ==
  UNION {{c \in [1..n -> Nodes] : \A i, j \in 1..n : i # j => c[i] # c[j]} :
           n \in 1..Cardinality(Nodes)}

\* every consecutive pair of c is a stored call edge
IsCallChain(c) ==
  \A i \in 1..(Len(c) - 1) : <<c[i], c[i + 1]>> \in Edges(call_graph.calls)

\* the stored call edges are exactly the consecutive pairs of c
OnlyEdgesOf(c) ==
  Edges(call_graph.calls) = {<<c[i], c[i + 1]>> : i \in 1..(Len(c) - 1)}

(***************************************************************************)
(* C1: every returned path of more than one node starts at a function that *)
(* is public and not unsafe-declared, ends at a function in                *)
(* unsafe_functions, and has no node strictly between the two that is      *)
(* public or in unsafe_functions.                                          *)
(***************************************************************************)
C1_ValidPaths ==
  pc = "done" =>
    \A p \in ReturnedPaths :
      Len(p) > 1 =>
        /\ IsPublic(p[1]) /\ ~IsUnsafeDeclared(p[1])
        /\ p[Len(p)] \in call_graph.unsafe_functions
        /\ \A i \in 2..(Len(p) - 1) :
             ~IsPublic(p[i]) /\ p[i] \notin call_graph.unsafe_functions

\* a path with an intermediate node was returned from a graph in which the
\* origin also calls a public function
C1_Witness ==
  /\ pc = "done"
  /\ \E p \in ReturnedPaths :
       /\ Len(p) = 3
       /\ \E f \in call_graph.public_functions : <<p[1], f>> \in Edges(call_graph.calls)

(***************************************************************************)
(* C2: minimality: no node after the first of a returned path, the sink    *)
(* included, is in public_functions.                                       *)
(***************************************************************************)
C2_Minimal ==
  pc = "done" =>
    \A p \in ReturnedPaths :
      \A i \in 2..Len(p) : p[i] \notin call_graph.public_functions

\* a path was returned although its origin reaches the sink through another
\* public function as well
C2_Witness ==
  /\ pc = "done"
  /\ \E p \in ReturnedPaths, f \in call_graph.public_functions :
       /\ f # p[1]
       /\ <<p[1], f>> \in Edges(call_graph.calls)
       /\ <<f, p[Len(p)]>> \in Edges(call_graph.calls)

(***************************************************************************)
(* C3: every function that is public, not unsafe-declared and internally   *)
(* unsafe is returned as a path of one node.                               *)
(***************************************************************************)
C3_DegenerateReported ==
  pc = "done" =>
    \A f \in call_graph.public_unsafe_functions \cap call_graph.public_non_unsafe_functions :
      <<f>> \in ReturnedPaths

(***************************************************************************)
(* C4: once the traversal is over and every visited function is in the     *)
(* graph, a function is in unsafe_functions exactly when it is             *)
(* unsafe-declared or has internal unsafe, in the visitor's set and in the *)
(* graph's set alike.                                                      *)
(***************************************************************************)
AllInserted ==
  pc = "functions" /\ DOMAIN call_graph.functions = DOMAIN fn_visitor.functions

C4_UnsafeFunctionsIff ==
  AllInserted =>
    \A f \in DOMAIN call_graph.functions :
      LET unsafe == IsUnsafeDeclared(f) \/ HasInternalUnsafe(f) IN
      /\ f \in fn_visitor.unsafe_functions <=> unsafe
      /\ f \in call_graph.unsafe_functions <=> unsafe

(***************************************************************************)
(* C5: when the call edges are exactly a chain a -> b1 -> ... -> bk -> c   *)
(* no longer than the depth bound, a public and not unsafe, every bi       *)
(* private and not unsafe, c private and internally unsafe, exactly one    *)
(* path is returned, the chain itself.                                     *)
(***************************************************************************)
IsLinearChain(c) ==
  /\ Len(c) >= 2
  /\ OnlyEdgesOf(c)
  /\ Len(c) - 1 <= call_graph.max_search_depth
  /\ IsPublic(c[1]) /\ ~IsUnsafeDeclared(c[1]) /\ ~HasInternalUnsafe(c[1])
  /\ \A i \in 2..(Len(c) - 1) :
       /\ c[i] \in DOMAIN call_graph.functions
       /\ ~IsPublic(c[i]) /\ ~IsUnsafeDeclared(c[i]) /\ ~HasInternalUnsafe(c[i])
  /\ c[Len(c)] \in DOMAIN call_graph.functions
  /\ ~IsPublic(c[Len(c)]) /\ HasInternalUnsafe(c[Len(c)])

C6_Scenario3 ==
  pc = "done" =>
    \A a, b \in Nodes :
      ( /\ a # b
        /\ IsPublic(a) /\ ~IsUnsafeDeclared(a) /\ ~HasInternalUnsafe(a)
        /\ IsPublic(b) /\ ~IsUnsafeDeclared(b) /\ HasInternalUnsafe(b)
        /\ <<a, b>> \in Edges(call_graph.calls) )
      => (<<b>> \in ReturnedPaths /\ <<a, b>> \notin ReturnedPaths)

(***************************************************************************)
(* C7: a function that is public and unsafe-declared is a node of no       *)
(* returned path.                                                          *)
(***************************************************************************)
C7_PubUnsafeFnAbsent ==
  pc = "done" =>
    \A f \in Nodes :
      (IsPublic(f) /\ IsUnsafeDeclared(f)) =>
        \A p \in ReturnedPaths : f \notin Range(p)

\* paths were returned from a graph in which a pub unsafe fn with an unsafe
\* block is called by a valid origin and itself calls the sink of a path
C7_Witness ==
  /\ pc = "done"
  /\ \E f \in Nodes, p \in ReturnedPaths :
       /\ IsPublic(f) /\ IsUnsafeDeclared(f) /\ HasInternalUnsafe(f)
       /\ <<p[1], f>> \in Edges(call_graph.calls)
       /\ <<f, p[Len(p)]>> \in Edges(call_graph.calls)

(***************************************************************************)
(* C8: the path search terminates on every call graph, cycles and          *)
(* self-calls included, and for the cycle a -> b -> a with a public and    *)
(* safe and no function containing unsafe code it returns no path.         *)
(***************************************************************************)
Searching == pc \in {"origins", "bfs", "dfs"}

\* the graph of scenario 5 around some a and b
IsScenario5 ==
  \E a, b \in Nodes :
    /\ a # b
    /\ {<<a, b>>, <<b, a>>} \subseteq Edges(call_graph.calls)
    /\ IsPublic(a) /\ ~IsUnsafeDeclared(a)
    /\ call_graph.unsafe_functions = {}

C8_Terminates ==
  /\ Searching ~> (pc = "done")
  /\ [](pc = "done" /\ IsScenario5 => paths = << >>)

\* a search over a graph with a cycle and a self-call through which a target
\* is reachable has run its depth-first search and returned
HasCycle ==
  \E a, b \in Nodes :
    a # b /\ {<<a, b>>, <<b, a>>, <<b, b>>} \subseteq Edges(call_graph.calls)

C8_Witness ==
  /\ pc = "done"
  /\ HasCycle
  /\ search.all_paths # << >>

\* the search of scenario 5 has returned
C8_WitnessScenario5 == pc = "done" /\ IsScenario5

\* The steps reach the result the method computes in one piece.
StepwiseAgrees ==
  pc = "done" =>
    \A o \in Orders :
      Range(paths) = Range(find_paths_to_unsafe(call_graph, o))

(***************************************************************************)
(* C9: completeness: every chain of call edges over distinct functions, no *)
(* longer than max_search_depth, from a public function that is neither    *)
(* unsafe-declared nor internally unsafe, through functions that are not   *)
(* public and not in unsafe_functions, to a non-public function of         *)
(* unsafe_functions, is among the returned paths.                          *)
(***************************************************************************)
IsCompleteCandidate(c) ==
  /\ Len(c) >= 2
  /\ IsCallChain(c)
  /\ Len(c) - 1 <= call_graph.max_search_depth
  /\ IsPublic(c[1]) /\ ~IsUnsafeDeclared(c[1]) /\ ~HasInternalUnsafe(c[1])
  /\ \A i \in 2..(Len(c) - 1) :
       ~IsPublic(c[i]) /\ c[i] \notin call_graph.unsafe_functions
  /\ ~IsPublic(c[Len(c)]) /\ c[Len(c)] \in call_graph.unsafe_functions

AsSet(r) ==
  [file_path |-> r.file_path, paths |-> {PathNames(r.paths[i]) : i \in DOMAIN r.paths}]

\* the results of the directory when every set is iterated in the order o
ExpectedResults(o) ==
  {AsSet(analyze_file(f, contents[f], o).value) :
     f \in {h \in Files : analyze_file(h, contents[h], o).tag = "Some"}}

C10_Deterministic ==
  returned =>
    \A o \in Orders :
      /\ {AsSet(results[i]) : i \in DOMAIN results} = ExpectedResults(o)
      /\ Len(results) = Cardinality(ExpectedResults(o))

\* two files were appended against their order in the directory, and the two
\* paths of one of them were found longest first
C10_Witness ==
  /\ returned
  /\ Len(results) = 2
  /\ results[1].file_path > results[2].file_path
  /\ \E i \in DOMAIN results :
       Len(results[i].paths) = 2 /\ Len(results[i].paths[1]) = 3

\* The search of one graph alone: every iteration order yields the same set.
SearchOrderIndependent ==
  \A o1, o2 \in Orders :
    Range(find_paths_to_unsafe(call_graph, o1)) = Range(find_paths_to_unsafe(call_graph, o2))

(***************************************************************************)
(* C11: whenever a candidate path found by the depth-first search is       *)
(* discarded because a node after its first is public, the sub-path from   *)
(* the last public node of the candidate to its sink is among the returned *)
(* paths.                                                                  *)
(***************************************************************************)
\* the index of the last node of p, after the first, in public_functions
LastPublic(g, p) ==
  CHOOSE k \in 2..Len(p) :
    /\ p[k] \in g.public_functions
    /\ \A j \in (k + 1)..Len(p) : p[j] \notin g.public_functions

\* the candidates of the search that the minimality filter discards
DiscardedAsNotMinimal(g, o) ==
  {p \in Range(Candidates(g, o)) : is_valid_path(g, p) /\ ~is_minimal_path(g, p)}

C11_SubPathReturned ==
  pc = "done" =>
    \A o \in Orders :
      \A p \in DiscardedAsNotMinimal(call_graph, o) :
        SubSeq(p, LastPublic(call_graph, p), Len(p)) \in ReturnedPaths

(***************************************************************************)
(* C12: after add_function calls with pairwise distinct paths,             *)
(* public_functions holds the public functions,                            *)
(* public_non_unsafe_functions the public ones that are not                *)
(* unsafe-declared, public_unsafe_functions the public ones with internal  *)
(* unsafe, which is public_functions intersected with unsafe_functions;    *)
(* public_non_unsafe_functions may overlap unsafe_functions.               *)
(***************************************************************************)
C12_DerivedSets ==
  LET F == DOMAIN call_graph.functions IN
  /\ call_graph.public_functions = {f \in F : IsPublic(f)}
  /\ call_graph.public_non_unsafe_functions =
       {f \in F : IsPublic(f) /\ ~IsUnsafeDeclared(f)}
  /\ call_graph.public_unsafe_functions =
       {f \in F : IsPublic(f) /\ HasInternalUnsafe(f)}
  /\ call_graph.public_unsafe_functions =
       call_graph.public_functions \cap call_graph.unsafe_functions

\* three functions added, one of them public, unsafe-declared and internally
\* unsafe, one in both public_non_unsafe_functions and unsafe_functions
C12_Witness ==
  /\ Cardinality(DOMAIN call_graph.functions) = 3
  /\ \E f \in DOMAIN call_graph.functions :
       IsPublic(f) /\ IsUnsafeDeclared(f) /\ HasInternalUnsafe(f)
  /\ call_graph.public_non_unsafe_functions \cap call_graph.unsafe_functions # {}

(***************************************************************************)
(* C13: when the traversal of a function item finishes, its record's       *)
(* has_internal_unsafe is true exactly when an unsafe block occurs in its  *)
(* body, and the function is then in the visitor's unsafe_functions; also  *)
(* when the body holds a nested function item.                             *)
(***************************************************************************)
C13_InternalUnsafeCommitted ==
  finished.name # None =>
    /\ fn_visitor.functions[finished.name].has_internal_unsafe = finished.has_block
    /\ finished.has_block => finished.name \in fn_visitor.unsafe_functions

(***************************************************************************)
(* C14: every call site in the body of a function item f yields an edge    *)
(* whose caller is f, also when the site follows a nested function item of *)
(* f's body; a call site inside the nested item has the nested function as *)
(* its caller.                                                             *)
(***************************************************************************)
C14_CallerIsEnclosingFunction ==
  \A site \in sites :
    [caller |-> site.caller, callee |-> site.callee] \in Range(call_visitor.calls)

(***************************************************************************)
(* C15: a safe constructor method, or a Default impl, found in an impl     *)
(* block is in the constructor list of the type definition of the same     *)
(* name, whether the impl block is visited before or after the definition. *)
(***************************************************************************)
\* the constructor entries the impl blocks of the file give the type t
ConstructorsFound(t) ==
  UNION {IF i.is_default_impl
           THEN {ImplCode(i)}
           ELSE {MethodCode(t, i.methods[k]) :
                   k \in {n \in DOMAIN i.methods :
                            is_constructor(i.methods[n], t) /\ ~i.methods[n].is_unsafe}} :
         i \in {j \in impls_seen : j.self_ty = t}}

C15_ConstructorsAnyOrder ==
  pc = "type_done" =>
    \A t \in DOMAIN fn_visitor.type_definitions :
      ConstructorsFound(t) \subseteq Range(fn_visitor.type_definitions[t].constructors)

(***************************************************************************)
(* C16: no constructor list holds an entry built from an unsafe-declared   *)
(* method of a non-Default impl block: an entry built from one method is   *)
(* built from a method that returns Self or the type name and has no       *)
(* unsafe qualifier.                                                       *)
(***************************************************************************)
C16_NoUnsafeConstructor ==
  \A t \in DOMAIN fn_visitor.type_definitions :
    \A e \in Range(fn_visitor.type_definitions[t].constructors) :
      ~e.whole_block =>
        \A m \in Range(e.code) : ~m.is_unsafe /\ is_constructor(m, t)

\* an impl block with a safe and an unsafe-declared constructor was visited
\* after the definition of its type, and the safe one was appended
C16_Witness ==
  \E i \in impls_seen :
    /\ ~i.is_default_impl
    /\ i.self_ty \in DOMAIN fn_visitor.type_definitions
    /\ \E m1, m2 \in Range(i.methods) :
         /\ ~m1.is_unsafe /\ is_constructor(m1, i.self_ty)
         /\ m2.is_unsafe /\ is_constructor(m2, i.self_ty)
         /\ MethodCode(i.self_ty, m1)
              \in Range(fn_visitor.type_definitions[i.self_ty].constructors)
    /\ \A j \in impls_seen : j.self_ty = i.self_ty => j = i

(***************************************************************************)
(* C17: for a type expression built from references, arrays, slices,       *)
(* tuples and generic path types, extract_custom_types collects exactly    *)
(* the final identifiers, not in the primitive/stdlib table, of the path   *)
(* types of the expression: Foo of Vec<Foo> is collected, String of        *)
(* std::string::String is not.                                             *)
(***************************************************************************)
RECURSIVE CustomTypesOf(_)
CustomTypesOf(ty) ==
  (IF ty.kind = "path" /\ ty.segments[Len(ty.segments)] \notin PrimitiveTypes
     THEN {ty.segments[Len(ty.segments)]}
     ELSE {})
    \cup UNION {CustomTypesOf(ty.args[k]) : k \in DOMAIN ty.args}

C17_ExtractsExactly ==
  pc = "extracted" => custom_types = CustomTypesOf(sig_type)

(***************************************************************************)
(* C18: under every interleaving of the workers no update to the shared    *)
(* state is lost or duplicated: when analyze_directory_parallel returns,   *)
(* the results list holds exactly one entry for each file whose analysis   *)
(* returned a result, and the error counter is the number of files whose   *)
(* analysis returned an I/O error or panicked.                             *)
(***************************************************************************)
\* what the analysis of the file f returns (the same for every iteration order)
OutcomeOf(f) == analyze_file(f, contents[f], CHOOSE o \in Orders : TRUE).tag

EntriesOf(f) == {i \in DOMAIN results : results[i].file_path = f}

C18_NoLostUpdate ==
  returned =>
    /\ \A f \in Files :
         Cardinality(EntriesOf(f)) = IF OutcomeOf(f) = "Some" THEN 1 ELSE 0
    /\ error_count = Cardinality({f \in Files : OutcomeOf(f) \in {"IoError", "Panic"}})

\* two files ended in an error, so both increments of the counter are kept
C18_Witness ==
  /\ returned
  /\ error_count = 2
  /\ \E f, h \in Files : contents[f] = "io_error" /\ contents[h] = "panic"

(***************************************************************************)
(* C19: a file whose function-visitor pass or call-visitor pass crashes,   *)
(* or whose analysis times out, is not in the results and makes the error  *)
(* counter one higher.                                                     *)
(***************************************************************************)
CrashedOrTimedOut ==
  {f \in Files : contents[f] \in {"fn_visitor_crash", "call_visitor_crash", "timeout"}}

C19_CrashCounted ==
  returned =>
    /\ \A f \in CrashedOrTimedOut : EntriesOf(f) = {}
    /\ error_count =
         Cardinality(CrashedOrTimedOut)
           + Cardinality({f \in Files : OutcomeOf(f) \in {"IoError", "Panic"}})

(***************************************************************************)
(* C20: whichever files fail (I/O error, parse error, visitor crash,       *)
(* timeout, panic), every file is analysed, the processed count ends equal *)
(* to the number of files, the results of the successful files are in the  *)
(* results list, and analyze_directory_parallel returns.                   *)
(***************************************************************************)
BatchComplete ==
  /\ returned
  /\ processed_count = Cardinality(Files)
  /\ \A f \in Files : OutcomeOf(f) = "Some" => EntriesOf(f) # {}

C20_BatchCompletes ==
  /\ <>[]BatchComplete
  /\ [](returned => BatchComplete)

\* the call has returned, a file had failed and a file analysed after it has
\* its result in the list
C20_Witness ==
  /\ returned
  /\ \E f, h \in Files :
       /\ f < h
       /\ contents[f] \in {"io_error", "panic", "parse_error", "fn_visitor_crash", "timeout"}
       /\ EntriesOf(h) # {}

IsValidMinimalChain(c) ==
  /\ Len(c) >= 2
  /\ IsPublic(c[1]) /\ ~IsUnsafeDeclared(c[1]) /\ ~HasInternalUnsafe(c[1])
  /\ ~IsPublic(c[Len(c)]) /\ c[Len(c)] \in call_graph.unsafe_functions
  /\ \A i \in 2..(Len(c) - 1) :
       ~IsPublic(c[i]) /\ c[i] \notin call_graph.unsafe_functions
  /\ IsCallChain(c)

C22_DepthBound ==
  pc = "done" =>
    /\ \A p \in ReturnedPaths : Len(p) - 1 <= call_graph.max_search_depth
    /\ \A c \in Chains :
         IsValidMinimalChain(c) =>
           /\ Len(c) - 1 = call_graph.max_search_depth => c \in ReturnedPaths
           /\ Len(c) - 1 = call_graph.max_search_depth + 1 => c \notin ReturnedPaths

\* with max_search_depth = 1, a chain of one edge was returned and a chain of
\* two edges from the same origin was not
C22_Witness ==
  /\ pc = "done"
  /\ call_graph.max_search_depth = 1
  /\ \E c, d \in Chains :
       /\ Len(c) = 2 /\ Len(d) = 3 /\ c[1] = d[1]
       /\ IsValidMinimalChain(c) /\ IsValidMinimalChain(d)
       /\ c \in ReturnedPaths /\ d \notin ReturnedPaths

(***************************************************************************)
(* C23: at every step of dfs_find_valid_paths the visited set is the set   *)
(* of nodes on the current path, and both are empty when find_valid_paths  *)
(* has returned; in the diamond a -> b -> d, a -> c -> d with d a private  *)
(* unsafe sink both [a, b, d] and [a, c, d] are recorded.                  *)
(***************************************************************************)
\* a is a valid origin, b and c are plain private functions, d is a private
\* function with an unsafe block, and the depth bound lets the search reach d
IsClaimedDiamond ==
  /\ call_graph.max_search_depth >= 2
  /\ IsPublic("a") /\ ~IsUnsafeDeclared("a") /\ ~HasInternalUnsafe("a")
  /\ \A f \in {"b", "c"} : ~IsPublic(f) /\ ~IsUnsafeDeclared(f) /\ ~HasInternalUnsafe(f)
  /\ ~IsPublic("d") /\ HasInternalUnsafe("d")

C23_VisitedPerBranch ==
  /\ search.visited = Range(search.path)
  /\ Cardinality(search.visited) = Len(search.path)
  /\ pc # "dfs" => search.visited = {} /\ search.path = << >>
  /\ (pc = "done" /\ IsClaimedDiamond) =>
       /\ {<<"a", "b", "d">>, <<"a", "c", "d">>} \subseteq Range(search.all_paths)
       /\ {<<"a", "b", "d">>, <<"a", "c", "d">>} \subseteq ReturnedPaths

\* the search of the claimed diamond has returned with both paths
C23_Witness ==
  /\ pc = "done"
  /\ IsClaimedDiamond
  /\ ReturnedPaths = {<<"a", "b", "d">>, <<"a", "c", "d">>}

(***************************************************************************)
(* C24: every node of every returned path has a record in the functions    *)
(* map of the graph, so that no node of a returned path carries the        *)
(* default record (Module visibility, empty source) of                     *)
(* convert_path_to_node_info.                                              *)
(***************************************************************************)
C24_EveryNodeHasRecord ==
  pc = "done" =>
    \A i \in DOMAIN paths :
      \A k \in DOMAIN paths[i] :
        /\ paths[i][k].full_path \in DOMAIN call_graph.functions
        /\ paths[i][k].source_code # ""

(***************************************************************************)
(* C25: the in_unsafe_block flag after leaving an unsafe block is its      *)
(* value before entering the block: while an unsafe block is being         *)
(* visited the flag is true, also after an inner unsafe block has ended,   *)
(* and once the outermost block has ended it is false again.               *)
(***************************************************************************)
\* the unsafe blocks being visited
OpenUnsafeBlocks == {i \in DOMAIN stack : stack[i].kind = "unsafe"}

C25_FlagRestored ==
  pc = "visit" => (fn_visitor.in_unsafe_block <=> OpenUnsafeBlocks # {})

\* an inner unsafe block has ended and the visit is back in the outer one
C25_Witness ==
  /\ pc = "visit"
  /\ stack # << >>
  /\ stack[Len(stack)].kind = "unsafe"
  /\ stack[Len(stack)].has_block
  /\ fn_visitor.in_unsafe_block

(***************************************************************************)
(* C26: resolve_path on the path of a free-function call: when the first   *)
(* segment is a key of the import table, that segment is replaced by the   *)
(* imported path and no module prefix is added; otherwise, when the path   *)
(* does not start with crate:: or :: and the current module path is not    *)
(* empty, the module path is prefixed; otherwise the path is returned      *)
(* unchanged.  Glob imports add nothing to the import table.               *)
(***************************************************************************)
\* the string the property states for a path, from the segments of the path
ResolvedAsClaimed(v, path) ==
  LET first == path.segments[1]
      rest == SubSeq(path.segments, 2, Len(path.segments))
      lead == IF path.leading_colon THEN <<Sep>> ELSE << >>
      absolute == path.leading_colon \/ (first = "crate" /\ rest # << >>)
  IN IF first \in DOMAIN v.imports
       THEN lead \o v.imports[first]
              \o (IF rest = << >> THEN << >> ELSE <<Sep>> \o JoinSegments(rest))
       ELSE IF ~absolute /\ v.current_module_path # << >>
         THEN JoinSegments(v.current_module_path) \o <<Sep>> \o lead \o JoinSegments(path.segments)
         ELSE lead \o JoinSegments(path.segments)

\* the names a use tree brings into scope, its globs left out
RECURSIVE ImportedNames(_)
ImportedNames(use_tree) ==
  CASE use_tree.kind = "name" -> {use_tree.ident}
    [] use_tree.kind = "rename" -> {use_tree.rename}
    [] use_tree.kind = "glob" -> {}
    [] OTHER -> UNION {ImportedNames(use_tree.items[k]) : k \in DOMAIN use_tree.items}

C26_ResolvePath ==
  /\ resolved.path # NoPath =>
       resolved.result = ResolvedAsClaimed(call_visitor, resolved.path)
  /\ DOMAIN call_visitor.imports = UNION {ImportedNames(u) : u \in uses_seen}

\* inside a module, after a use item with a glob, a path whose first segment
\* is imported and that has a second segment was resolved
C26_Witness ==
  /\ call_visitor.current_module_path # << >>
  /\ \E u \in uses_seen : u.kind = "path" /\ u.items[1].kind = "group"
                            /\ \E k \in DOMAIN u.items[1].items : u.items[1].items[k].kind = "glob"
  /\ Len(resolved.path.segments) = 2
  /\ resolved.path.segments[1] \in DOMAIN call_visitor.imports

(***************************************************************************)
(* C27: the per-file timeout is evaluated exactly once, after both visitor *)
(* passes and before the call graph is built; when the elapsed time is     *)
(* then at or over the timeout the file yields no result, and time spent   *)
(* later in the construction of the graph or in the search never discards  *)
(* a file.                                                                 *)
(***************************************************************************)
C27_TimeoutOnce ==
  /\ Len(file_run.checks) <= 1
  /\ \A k \in DOMAIN file_run.checks :
       file_run.checks[k].done = {"fn_visitor", "call_visitor"}
  /\ "graph" \in file_run.done => Len(file_run.checks) = 1
  /\ (file_run.pc = "returned" /\ file_run.checks # << >>) =>
       IF file_run.checks[1].elapsed >= file_run.timeout
         THEN file_run.result.tag = "None" /\ paths = << >>
         ELSE paths # << >> => file_run.result.tag = "Some"

\* a file whose passes ended in time was reported although the whole analysis
\* took longer than the timeout
C27_Witness ==
  /\ file_run.pc = "returned"
  /\ file_run.result.tag = "Some"
  /\ file_run.checks[1].elapsed < file_run.timeout
  /\ file_run.elapsed >= file_run.timeout

(***************************************************************************)
(* C28: for each type definition kept in the result, the annotated copy of *)
(* a path function that touches the type is appended to the constructor    *)
(* list at most once over all reported paths, also when the function is    *)
(* reached through several paths or its source is reformatted by           *)
(* enhanced_format_source_code.                                            *)
(***************************************************************************)
\* the annotated copies of the function f in a constructor list
CopiesOf(constructors, f) ==
  {k \in DOMAIN constructors : constructors[k].chain > 0 /\ constructors[k].fn_name = f}

C28_AppendedOnce ==
  file_run.pc = "returned" =>
    \A t \in DOMAIN file_run.result.type_definitions :
      \A f \in Nodes :
        Cardinality(CopiesOf(file_run.result.type_definitions[t].constructors, f)) <= 1

(***************************************************************************)
(* C29: soundness of the reported chains: in every path returned by        *)
(* find_paths_to_unsafe each consecutive pair is an edge stored by         *)
(* add_call, and no function occurs twice in the path.                     *)
(***************************************************************************)
NoRepeat(p) == \A i, j \in DOMAIN p : i # j => p[i] # p[j]

C29_SoundChains ==
  pc = "done" => \A p \in ReturnedPaths : IsCallChain(p) /\ NoRepeat(p)

\* a path of three functions was returned from a graph in which its second
\* function calls back its first
C29_Witness ==
  /\ pc = "done"
  /\ \E p \in ReturnedPaths :
       Len(p) = 3 /\ <<p[2], p[1]>> \in Edges(call_graph.calls)

(***************************************************************************)
(* C30: with every function path added to the graph at most once, every    *)
(* candidate recorded by dfs_find_valid_paths from an origin chosen by     *)
(* find_paths_to_unsafe satisfies is_valid_path, and the final filters     *)
(* remove depth-first candidates only through is_minimal_path.             *)
(***************************************************************************)
\* the candidates of the depth-first searches, callees and origins iterated
\* in the order o
DfsCandidates(o) ==
  OriginPaths(call_graph, o, IterOrder(call_graph.public_non_unsafe_functions, o),
              call_graph.unsafe_functions \ call_graph.public_unsafe_functions)

C30_CandidatesValid ==
  pc = "done" =>
    \A o \in Orders :
      LET candidates == Range(DfsCandidates(o)) IN
      /\ \A c \in candidates :
           /\ is_valid_path(call_graph, c)
           /\ KeepPath(call_graph, c) <=> is_minimal_path(call_graph, c)
      /\ ReturnedPaths = {c \in candidates : is_minimal_path(call_graph, c)}

\* a candidate of the depth-first search was removed as not minimal, another
\* one was returned
C30_Witness ==
  /\ pc = "done"
  /\ ReturnedPaths # {}
  /\ \E o \in Orders : \E c \in Range(DfsCandidates(o)) :
       ~is_minimal_path(call_graph, c) /\ c \notin ReturnedPaths

====
